---- MODULE Spec2Model ----
(***************************************************************************)
(* A model of the trading coordinator of Project_Algo_Leo:                *)
(*   SignalGenerator.py        the signal engine (pure function of the     *)
(*                             candle window, plus its FIFO queue)         *)
(*   OrderManagementSystem.py  cancel-then-place order coordinator         *)
(*   Main.py                   supervisor loop, risk manager, the stored   *)
(*                             position and its lock                       *)
(*   AccountGateWay.py         the position poll that feeds the position   *)
(*                                                                         *)
(* Quantities are in tenths of a unit (0.1 is 1), prices are integers.     *)
(* Two specifications: SpecSignal applies the signal engine to a bounded   *)
(* family of candle windows; Spec runs the supervisor, the risk manager,   *)
(* the account position poll and the exchange concurrently.                *)
(***************************************************************************)
EXTENDS Integers, Sequences, FiniteSets, TLC

VARIABLES
    \* ---- SignalGenerator (SpecSignal) ----
    candles,        \* self.candles: the sequence of Close values of the window
    order_queue,    \* self.order_queue: FIFO of <<side, quantity>>
    side,           \* self.side
    quantity,       \* self.quantity
    sgpc,           \* position of the caller: "new", "evaluated", "returned"
    \* ---- the exchange ----
    orders,         \* every order accepted so far, indexed by order id
    exPos,          \* the position on the exchange (tenths)
    \* ---- BinanceFutureGateway ----
    depth_cache,    \* self._depth_cache: NoDepth or <<best bid, best ask>>
    \* ---- BinanceAccount ----
    account_position_info,  \* the frame: no row, or the row of the symbol
    realized_pnl,   \* self.realized_pnl
    acctPc,         \* position loop: "fetch" or "notify"
    \* ---- Main.py ----
    global_position,  \* the stored position (tenths)
    pc,             \* position of the supervisor ("sup") and the risk manager ("risk")
    oms,            \* per caller: arguments and locals of its OrderManagementSystem call
    calls,          \* calls of the order manager so far
    supv,           \* trading_logic locals: side, quantity
    risk,           \* RiskManagement fields and locals of its cycle
    \* ---- BinanceFutureGateway, its depth and execution tasks (SpecGateway) ----
    dws,            \* self._dws is set (the depth socket session)
    dpc,            \* _listen_depth_forever: "top", "recv", "notify", "reconnect", "dead"
    dnext,          \* index of the next callback of the for loop of line 99
    depth_callbacks,  \* self._depth_callbacks, in registration order
    updates,        \* depth updates received so far
    delivered,      \* per callback: the books it was called with, in call order
    errors,         \* exceptions raised in the depth task so far
    reconnects,     \* calls of _reconnect_ws from the depth task so far
    fresh,          \* an update arrived since the start and since the last stream error
    epc,            \* _listen_execution_forever: "subscribe", "recv", "ended"
    evSent,         \* order events the exchange has emitted so far
    evPending,      \* order events emitted and not yet handed to the callbacks
    \* ---- BinanceAccount, its four polling tasks on one event loop (SpecAccount) ----
    lpc,            \* per loop: "fetch", "wait", "notify", "sleep"
    running,        \* the task that holds the event loop, or "idle"
    lok,            \* per loop: the request of this iteration was answered
    stored,         \* per loop: the cached record was replaced in this iteration
    called,         \* per loop: the callbacks called in this iteration, in call order
    ncb,            \* per loop: the number of registered callbacks
    tick,           \* per loop: parity of the number of requests attempted
    broken,         \* requests of the client raise before they are sent
    jobs,           \* jobs registered with the schedule module
    keepalive_runs, \* runs of _extend_listen_key so far
    \* ---- BinanceFutureGateway, its candle task (SpecCandle) ----
    cpc,            \* _listen_candle_forever: "recv", "reconnect", "sleep", "dead"
    candle_callbacks,  \* len(self._candle_callbacks)
    now,            \* the time, in seconds since the task started
    last_dispatch   \* when the callbacks were last called with a candle, or NoTime

sigVars == <<candles, order_queue, side, quantity, sgpc>>
exVars == <<orders, exPos>>
acctVars == <<account_position_info, realized_pnl, acctPc>>
mainVars == <<orders, exPos, depth_cache, account_position_info, realized_pnl,
              acctPc, global_position, pc, oms, calls, supv, risk>>

gwVars == <<dws, dpc, dnext, depth_callbacks, updates, delivered, errors,
            reconnects, fresh, epc, evSent, evPending>>
\* the variables of the gateways' own tasks, which the trading steps leave alone
acVars == <<lpc, running, lok, stored, called, ncb, tick, broken, jobs, keepalive_runs>>
cdVars == <<cpc, candle_callbacks, now, last_dispatch>>
infraVars == <<gwVars, acVars, cdVars>>

vars == <<candles, order_queue, side, quantity, sgpc,
          orders, exPos, depth_cache, account_position_info, realized_pnl,
          acctPc, global_position, pc, oms, calls, supv, risk, infraVars>>

None == "None"
\* a float that is not a number, and a <<side, quantity>> that is absent
NaN == <<>>
NoSignal == <<>>
\* no depth cache yet; an empty frame; a None response
NoDepth == <<>>
EmptyFrame == <<>>

----------------------------------------------------------------------------
(* Bounds of the candle windows the signal engine is applied to.           *)

TailLen == 3         \* the last TailLen closes move freely
MaxDelta == 2        \* each of them by at most MaxDelta either way
BasePrice == 200     \* first close of every window
RampLen == 70        \* length of the longest windows

(* Program constants of SignalGenerator.py                                 *)
MinWindow == 60      \* len(self.candles) < 60
RsiPeriod == 14      \* calculate_rsi(period=14)
RsiSell == 75        \* rsi >= 75
RsiBuy == 25         \* rsi <= 25
SmaWindow == 20      \* rolling(window=20)
VwapSmaWindow == 5   \* rolling(window=5)
BaseQty == 1         \* 0.1, in tenths
DoubleQty == 2       \* 0.2, in tenths

Max(a, b) == IF a >= b THEN a ELSE b
Abs(x) == IF x >= 0 THEN x ELSE -x

RECURSIVE SumTo(_, _, _)
\* f[lo] + ... + f[hi]
SumTo(f, lo, hi) == IF lo > hi THEN 0 ELSE f[hi] + SumTo(f, lo, hi - 1)

\* A window of n closes: a straight line of the given slope, then TailLen
\* closes that move by the deltas of tail.
MkWindow(n, slope, tail) ==
    LET k == n - TailLen
        last == BasePrice + slope * (k - 1)
    IN  [i \in 1..n |->
            IF i <= k THEN BasePrice + slope * (i - 1)
            ELSE last + SumTo(tail, 1, i - k)]

WindowLens == {MinWindow - 1, MinWindow, RampLen}
Slopes == {-1, 0, 1}
Windows ==
    { MkWindow(n, s, t) : n \in WindowLens, s \in Slopes,
                          t \in [1..TailLen -> (-MaxDelta)..MaxDelta] }

----------------------------------------------------------------------------
(* SignalGenerator.py                                                      *)

\* delta = Close.diff(): undefined (NaN) for the first row
Delta(c, i) == c[i] - c[i - 1]
\* gain = delta.where(delta > 0, 0): NaN > 0 is false, so row 1 is 0
Gain(c, i) == IF i > 1 /\ Delta(c, i) > 0 THEN Delta(c, i) ELSE 0
\* loss = -delta.where(delta < 0, 0)
Loss(c, i) == IF i > 1 /\ Delta(c, i) < 0 THEN -Delta(c, i) ELSE 0

RECURSIVE SumGain(_, _, _)
SumGain(c, lo, hi) == IF lo > hi THEN 0 ELSE Gain(c, hi) + SumGain(c, lo, hi - 1)
RECURSIVE SumLoss(_, _, _)
SumLoss(c, lo, hi) == IF lo > hi THEN 0 ELSE Loss(c, hi) + SumLoss(c, lo, hi - 1)

\* calculate_rsi: rolling(window=14, min_periods=1).mean() of gain and loss at
\* the last row, rs = avg_gain / avg_loss, rsi = 100 - 100 / (1 + rs).
\* Both means have the same number of rows, so rs = G / L with G, L the sums:
\* rsi is the fraction 100*G / (G + L), kept as <<numerator, denominator>>;
\* G = L = 0 gives 0/0 = NaN; L = 0 < G gives rs = inf and rsi = 100.
calculate_rsi(c) ==
    LET n == Len(c)
        lo == Max(1, n - RsiPeriod + 1)
        G == SumGain(c, lo, n)
        L == SumLoss(c, lo, n)
    IN  IF G + L = 0 THEN NaN ELSE <<100 * G, G + L>>

\* rsi >= t and rsi <= t; every comparison with NaN is false
RsiGeq(r, t) == r # NaN /\ r[1] >= t * r[2]
RsiLeq(r, t) == r # NaN /\ r[1] <= t * r[2]

signal_rsi_swapped(c) ==
    LET rsi == calculate_rsi(c)
    IN  IF RsiGeq(rsi, RsiSell) THEN "BUY"
        ELSE IF RsiLeq(rsi, RsiBuy) THEN "SELL"
        ELSE None

signal_rsi(c) ==
    LET rsi == calculate_rsi(c)
    IN  IF RsiGeq(rsi, RsiSell) THEN "SELL"
        ELSE IF RsiLeq(rsi, RsiBuy) THEN "BUY"
        ELSE None

\* Sum of the last w closes; the rolling mean is defined from w rows on
LastSum(c, w) == SumTo(c, Len(c) - w + 1, Len(c))

\* signal_simple_ma: Close[-1] > SMA20[-1]; with fewer than 20 rows SMA20 is
\* NaN, the comparison is false and the result is SELL
signal_simple_ma(c) ==
    IF Len(c) >= SmaWindow /\ SmaWindow * c[Len(c)] > LastSum(c, SmaWindow)
    THEN "BUY" ELSE "SELL"

\* signal_vwap: calculate_vwap sets VWAP_SMA5 = Close.rolling(5).mean() (the
\* VWAP column itself is not read); BUY below it, SELL above it, else None
signal_vwap(c) ==
    IF Len(c) < VwapSmaWindow THEN None
    ELSE IF VwapSmaWindow * c[Len(c)] < LastSum(c, VwapSmaWindow) THEN "BUY"
    ELSE IF VwapSmaWindow * c[Len(c)] > LastSum(c, VwapSmaWindow) THEN "SELL"
    ELSE None

\* The combination of lines 80-92
CombineFollowMa(ma, vwap) ==
    IF ma # None /\ vwap # None
    THEN IF ma # vwap THEN <<ma, BaseQty>> ELSE <<ma, DoubleQty>>
    ELSE IF ma # None THEN <<ma, BaseQty>>
    ELSE IF vwap # None THEN <<vwap, BaseQty>>
    ELSE NoSignal

Combine(ma, vwap) ==
    IF ma # None /\ vwap # None
    THEN IF ma # vwap THEN <<vwap, BaseQty>> ELSE <<ma, DoubleQty>>
    ELSE IF ma # None THEN <<ma, BaseQty>>
    ELSE IF vwap # None THEN <<vwap, BaseQty>>
    ELSE NoSignal

\* What evaluate_signals puts on the queue for a window of at least 60 rows
SignalOfNoPriority(c) ==
    Combine(signal_simple_ma(c), signal_vwap(c))

SignalOf(c) ==
    LET rsi_signal == signal_rsi(c)
    IN  IF rsi_signal # None THEN <<rsi_signal, BaseQty>>
        ELSE Combine(signal_simple_ma(c), signal_vwap(c))

\* evaluate_signals: the queue after the call
evaluate_signals_noguard(c, q) ==
    IF SignalOf(c) = NoSignal THEN q ELSE Append(q, SignalOf(c))

evaluate_signals(c, q) ==
    IF Len(c) < MinWindow THEN q
    ELSE IF SignalOf(c) = NoSignal THEN q
    ELSE Append(q, SignalOf(c))

----------------------------------------------------------------------------
(* Bounds of the concurrent model                                          *)

MaxCalls == 2        \* calls of the order manager in one run
EntryPrice == 3000   \* entry price the exchange reports for the position
InitPositions == {16, -16}           \* position on the exchange at start-up
Books == {<<2400, 2402>>}            \* <<bid, ask>> of the depth updates
PnlValues == {0, 200, 100}           \* realized PnL the account poll reports

(* Program constants of Main.py, quantities in tenths                      *)
MaxLimitSinglePair == 15    \* max_limit_single_pair=1.5
ReduceExtra == 3            \* + 0.3
FlatFloor == 5              \* abs(_position) <= 0.5
TakeProfitPnl == 50         \* self.take_profit_pnl = 50
MaxNotionalPortfolio == 10000   \* max_notional_portfolio=10000
MaxDirectLossPct == 5       \* max_direct_loss=0.05, in percent
MaxDrawDownPct == 40        \* max_draw_down=0.4, in percent
PnlFloor == 100             \* realized_pnl > 100
WideStop == 3               \* max_direct_loss * 3
DefaultAggressive == 25     \* aggressive_level = 0.25, in percent
WideAggressive == 50        \* aggressive_level= 0.5, in percent

Callers == {"sup", "risk"}
OpenStatus == {"NEW", "PARTIALLY_FILLED"}

IsOpen(o) == o.status \in OpenStatus
OpenIds == {i \in 1..Len(orders) : IsOpen(orders[i])}
Signed(sd, q) == IF sd = "BUY" THEN q ELSE -q

\* The ids of S in increasing order (the exchange lists orders by id)
RECURSIVE SeqOf(_)
SeqOf(S) ==
    IF S = {} THEN <<>>
    ELSE LET m == CHOOSE x \in S : \A y \in S : x <= y
         IN  <<m>> \o SeqOf(S \ {m})

\* The record futures_create_order returns; the None that place_limit_order
\* returns after a rejection has no status to read
Response(id, st) == [orderId |-> id, status |-> st]
NoneResponse == Response(0, None)

IdleOms ==
    [kind |-> None, side |-> None, qty |-> 0, price |-> 0,
     openAtStart |-> {}, cancelReq |-> {}, toCancel |-> <<>>,
     fetchOk |-> FALSE, attempts |-> 0, response |-> NoneResponse]

\* The caller c enters place_limit_order_with_cancellation (kind "LIMIT") or
\* place_market_order_with_cancellation (kind "MARKET"); q is in twentieths
\* for a limit order (it is rounded to one decimal on placement), price is in
\* hundredths (it is rounded to two decimals on placement), 0 for a market order
CallOms(c, kind, sd, q, price) ==
    /\ calls < MaxCalls
    /\ calls' = calls + 1
    /\ oms' = [oms EXCEPT ![c] = [IdleOms EXCEPT !.kind = kind, !.side = sd, !.qty = q,
                                                   !.price = price]]
    /\ pc' = [pc EXCEPT ![c] = "oms_fetch"]

----------------------------------------------------------------------------
(* The exchange                                                            *)

\* An open order is filled
ExFill(i) ==
    /\ i \in OpenIds
    /\ orders' = [orders EXCEPT ![i].filled = orders[i].qty, ![i].status = "FILLED"]
    /\ exPos' = exPos + Signed(orders[i].side, orders[i].qty - orders[i].filled)
    /\ UNCHANGED <<infraVars, sigVars, depth_cache, acctVars, global_position, pc, oms, calls, supv, risk>>

----------------------------------------------------------------------------
(* BinanceMarketGateway.py: a depth update replaces the cache, lines 95     *)

DepthUpdate ==
    /\ \E b \in Books : depth_cache' = b
    /\ depth_cache' # depth_cache
    /\ UNCHANGED <<infraVars, sigVars, exVars, acctVars, global_position, pc, oms, calls, supv, risk>>

\* get_order_book(): None until the first depth update
get_order_book == depth_cache
get_best_bid(book) == book[1]
get_best_ask(book) == book[2]

----------------------------------------------------------------------------
(* AccountGateWay.py: the position loop                                    *)

\* _fetch_and_notify_position, lines 107-108: the payload is parsed
\* (_parse_position_info, 174-192) and stored before the callbacks run; the
\* frame has the row of the symbol with the position on the exchange
AcctFetch ==
    /\ acctPc = "fetch"
    /\ account_position_info' = << [positionAmt |-> exPos, entryPrice |-> EntryPrice] >>
    /\ acctPc' = "notify"
    /\ UNCHANGED <<infraVars, sigVars, exVars, depth_cache, realized_pnl, global_position,
                   pc, oms, calls, supv, risk>>

\* the same poll with an empty payload: _parse_position_info returns an empty
\* frame (lines 177-179; a payload that does not parse, lines 190-192), line
\* 108 stores it and the callbacks run
AcctFetchEmpty ==
    /\ acctPc = "fetch"
    /\ account_position_info' = EmptyFrame
    /\ acctPc' = "notify"
    /\ UNCHANGED <<infraVars, sigVars, exVars, depth_cache, realized_pnl, global_position,
                   pc, oms, calls, supv, risk>>

\* account_position_callback (Main.py 39-50), called from line 110-111: with a
\* row for the symbol, global_position is written under position_lock; an
\* empty frame raises inside the callback and is logged
account_position_callback ==
    /\ acctPc = "notify"
    /\ global_position' =
          IF account_position_info # EmptyFrame
          THEN account_position_info[1].positionAmt
          ELSE global_position
    /\ acctPc' = "fetch"
    /\ UNCHANGED <<infraVars, sigVars, exVars, depth_cache, account_position_info, realized_pnl,
                   pc, oms, calls, supv, risk>>

\* _fetch_and_notify_pnl, lines 83-86: realized_pnl is the sum of the payload.
\* The PnL poll is not part of Spec, where realized_pnl keeps its initial 0
AcctPnl ==
    /\ \E v \in PnlValues : realized_pnl' = v
    /\ realized_pnl' # realized_pnl
    /\ UNCHANGED <<infraVars, sigVars, exVars, depth_cache, account_position_info, acctPc,
                   global_position, pc, oms, calls, supv, risk>>

----------------------------------------------------------------------------
(* OrderManagementSystem.py                                                *)

\* self.async_client: __init__ sets it to None (line 15) and nothing in the
\* program awaits async_init (lines 21-22)
async_client == None

\* cancel_all_open_orders, line 75: futures_get_open_orders answers with the
\* open orders (an empty list returns False, line 78, and the caller places)
OmsFetchOk(c) ==
    /\ pc[c] = "oms_fetch"
    /\ oms' = [oms EXCEPT ![c].openAtStart = OpenIds, ![c].fetchOk = TRUE,
                          ![c].toCancel = SeqOf(OpenIds)]
    /\ pc' = [pc EXCEPT ![c] = IF OpenIds = {} THEN "oms_place" ELSE "oms_cancel"]
    /\ UNCHANGED <<infraVars, sigVars, calls, exVars, depth_cache, acctVars, global_position, supv, risk>>

\* a failed fetch that gives up the whole call without placing
OmsFetchFailNoPlace(c) ==
    /\ pc[c] = "oms_fetch"
    /\ oms' = [oms EXCEPT ![c].openAtStart = OpenIds, ![c].fetchOk = FALSE]
    /\ pc' = [pc EXCEPT ![c] = "oms_sleep"]
    /\ UNCHANGED <<infraVars, sigVars, calls, exVars, depth_cache, acctVars, global_position, supv, risk>>

\* line 75 raises: lines 85-87 log and return False, and the caller places
OmsFetchFail(c) ==
    /\ pc[c] = "oms_fetch"
    /\ oms' = [oms EXCEPT ![c].openAtStart = OpenIds, ![c].fetchOk = FALSE]
    /\ pc' = [pc EXCEPT ![c] = "oms_place"]
    /\ UNCHANGED <<infraVars, sigVars, calls, exVars, depth_cache, acctVars, global_position, supv, risk>>

\* lines 80-83, one turn of the loop: cancel_order (89-96) sends the cancel
\* request for the next fetched order; the exchange cancels the order if it is
\* still open, otherwise (or on any error) it raises, which cancel_order logs
OmsCancel(c) ==
    /\ pc[c] = "oms_cancel"
    /\ LET i == Head(oms[c].toCancel)
       IN \E ok \in BOOLEAN :
            /\ orders' = IF ok /\ IsOpen(orders[i])
                         THEN [orders EXCEPT ![i].status = "CANCELED"] ELSE orders
            /\ oms' = [oms EXCEPT ![c].cancelReq = @ \cup {i},
                                  ![c].toCancel = Tail(@)]
            /\ pc' = [pc EXCEPT ![c] = IF Tail(oms[c].toCancel) = <<>>
                                       THEN "oms_place" ELSE "oms_cancel"]
    /\ UNCHANGED <<infraVars, sigVars, calls, exPos, depth_cache, acctVars, global_position, supv, risk>>

\* round(quantity, 1) of a quantity given in twentieths, in tenths. A tie
\* (an odd number of twentieths) goes up or down with the binary value of the
\* float product abs(_position) * liquid_ratio: both outcomes occur
Rounded(kind, h) ==
    IF kind = "MARKET" \/ h % 2 = 0 THEN {h \div 2} ELSE {h \div 2, h \div 2 + 1}


\* place_limit_order (42-57) / place_market_order (59-71), the order is
\* accepted: it rests (NEW) or is matched at once (FILLED); the response
\* carries the status at that moment.  A market order goes through
\* self.async_client (line 67), which is None unless async_init was awaited
OmsPlaceOk(c) ==
    /\ pc[c] = "oms_place"
    /\ oms[c].kind = "MARKET" => async_client # None
    /\ \E st \in {"NEW", "FILLED"}, q \in Rounded(oms[c].kind, oms[c].qty) :
        /\ q > 0
        /\ orders' = Append(orders,
              [owner |-> c, kind |-> oms[c].kind, side |-> oms[c].side, qty |-> q,
               filled |-> IF st = "FILLED" THEN q ELSE 0, status |-> st])
        /\ exPos' = IF st = "FILLED" THEN exPos + Signed(oms[c].side, q) ELSE exPos
        /\ oms' = [oms EXCEPT ![c].attempts = @ + 1,
                              ![c].response = Response(Len(orders) + 1, st)]
    /\ pc' = [pc EXCEPT ![c] = "oms_sleep"]
    /\ UNCHANGED <<infraVars, sigVars, calls, depth_cache, acctVars, global_position, supv, risk>>

\* the exchange rejects the order, or the client is missing: lines 56-57 /
\* 70-71 log, the result is None
OmsPlaceRejected(c) ==
    /\ pc[c] = "oms_place"
    /\ oms' = [oms EXCEPT ![c].attempts = @ + 1, ![c].response = NoneResponse]
    /\ pc' = [pc EXCEPT ![c] = "oms_sleep"]
    /\ UNCHANGED <<infraVars, sigVars, calls, exVars, depth_cache, acctVars, global_position, supv, risk>>

\* lines 102-103 / 106-107 (113-114 / 117-118): after asyncio.sleep the
\* response of the placement is returned as it was received
OmsReturn(c) ==
    /\ pc[c] = "oms_sleep"
    /\ pc' = [pc EXCEPT ![c] = "check"]
    /\ UNCHANGED <<infraVars, sigVars, exVars, depth_cache, acctVars, global_position, oms, calls, supv, risk>>

----------------------------------------------------------------------------
(* Main.py: trading_logic                                                  *)

\* The windows fetch_latest_klines hands to the supervisor in this model:
\* a ramp of 60 rows (its signal is SELL at 0.1) and a flat window of 59 rows
\* (no signal)
SupTail(d) == [i \in 1..TailLen |-> d]
SupWindows ==
    {MkWindow(MinWindow, 1, SupTail(1)), MkWindow(MinWindow - 1, 0, SupTail(0))}

\* lines 57-66: a new SignalGenerator on the fetched window, evaluate_signals,
\* generate_signal; on an empty queue generate_signal never returns
SupSignal ==
    /\ pc["sup"] = "signal"
    /\ \E w \in SupWindows :
        LET q == evaluate_signals(w, <<>>)
        IN  IF q = <<>>
            THEN /\ pc' = [pc EXCEPT !["sup"] = "blocked"]
                 /\ UNCHANGED supv
            ELSE /\ supv' = [side |-> Head(q)[1], qty |-> Head(q)[2]]
                 /\ pc' = [pc EXCEPT !["sup"] = "loop"]
    /\ UNCHANGED <<infraVars, sigVars, exVars, depth_cache, acctVars, global_position, oms, calls, risk>>

\* an inner-loop turn that routes the signal whatever the position is
SupOrderNoLimit(current_position, sd, qty) == <<sd, qty>>

\* a reduce order that brings the position back to the limit and no further
SupOrderToLimit(current_position, sd, qty) ==
    IF current_position >= MaxLimitSinglePair
    THEN IF sd = "SELL" THEN <<"SELL", qty>>
         ELSE <<"SELL", Abs(current_position - MaxLimitSinglePair)>>
    ELSE IF current_position <= -MaxLimitSinglePair
    THEN IF sd = "BUY" THEN <<"BUY", qty>>
         ELSE <<"BUY", Abs(current_position + MaxLimitSinglePair)>>
    ELSE <<sd, qty>>

\* The order of one inner-loop turn, lines 72-118: <<side, quantity>> from the
\* position read and the signal; quantities in tenths
SupOrder(current_position, sd, qty) ==
    IF current_position >= MaxLimitSinglePair
    THEN IF sd = "SELL" THEN <<"SELL", qty>>
         ELSE <<"SELL", Abs(current_position - MaxLimitSinglePair) + ReduceExtra>>
    ELSE IF current_position <= -MaxLimitSinglePair
    THEN IF sd = "BUY" THEN <<"BUY", qty>>
         ELSE <<"BUY", Abs(current_position + MaxLimitSinglePair) + ReduceExtra>>
    ELSE <<sd, qty>>

\* The limit price of the same turn, in hundredths: best ask (line 73) or
\* best bid (89) beyond the limit, one unit further for a synthesized order
\* (82, 98); within the limit bid + 1 for a BUY (108) and ask - 1 for a SELL (116)
SupPrice(current_position, sd, book) ==
    IF current_position >= MaxLimitSinglePair
    THEN IF sd = "SELL" THEN 100 * get_best_ask(book) ELSE 100 * (get_best_ask(book) - 1)
    ELSE IF current_position <= -MaxLimitSinglePair
    THEN IF sd = "BUY" THEN 100 * get_best_bid(book) ELSE 100 * (get_best_bid(book) + 1)
    ELSE IF sd = "BUY" THEN 100 * (get_best_bid(book) + 1)
    ELSE 100 * (get_best_ask(book) - 1)

\* line 67: without a book the inner loop ends and the next iteration starts
SupNoBook ==
    /\ pc["sup"] = "loop"
    /\ get_order_book = NoDepth
    /\ pc' = [pc EXCEPT !["sup"] = "signal"]
    /\ supv' = [side |-> None, qty |-> 0]
    /\ UNCHANGED <<infraVars, sigVars, exVars, depth_cache, acctVars, global_position, oms, calls, risk>>

\* lines 67-118 up to the call: the position is read under position_lock and
\* the order is handed to place_limit_order_with_cancellation
SupLoop ==
    /\ pc["sup"] = "loop"
    /\ get_order_book # NoDepth
    /\ LET o == SupOrder(global_position, supv.side, supv.qty)
       IN  CallOms("sup", "LIMIT", o[1], 2 * o[2],
                   SupPrice(global_position, supv.side, get_order_book))
    /\ UNCHANGED <<infraVars, sigVars, exVars, depth_cache, acctVars, global_position, supv, risk>>

\* an exception of lines 57-73 that ends trading_logic
SupRaisesFatal ==
    /\ pc["sup"] \in {"signal", "loop"}
    /\ pc' = [pc EXCEPT !["sup"] = "dead"]
    /\ supv' = [side |-> None, qty |-> 0]
    /\ UNCHANGED <<infraVars, sigVars, exVars, depth_cache, acctVars, global_position, oms, calls, risk>>

\* lines 57-73 raise before the order manager is called (the candle request,
\* the signal engine, a side of the book without a level): the try of line 56
\* encloses them, line 122 logs and the while of line 55 starts its next
\* iteration
SupRaises ==
    /\ pc["sup"] \in {"signal", "loop"}
    /\ pc' = [pc EXCEPT !["sup"] = "signal"]
    /\ supv' = [side |-> None, qty |-> 0]
    /\ UNCHANGED <<infraVars, sigVars, exVars, depth_cache, acctVars, global_position, oms, calls, risk>>

\* a supervisor that books a FILLED response into the stored position itself
SupCheckOptimistic ==
    /\ pc["sup"] = "check"
    /\ LET r == oms["sup"].response
       IN  /\ pc' = [pc EXCEPT !["sup"] =
                      IF r = NoneResponse \/ r.status = "FILLED" THEN "signal" ELSE "loop"]
           /\ supv' = IF r = NoneResponse \/ r.status = "FILLED"
                      THEN [side |-> None, qty |-> 0] ELSE supv
           /\ global_position' =
                  IF r # NoneResponse /\ r.status = "FILLED"
                  THEN global_position + Signed(oms["sup"].side, orders[r.orderId].qty)
                  ELSE global_position
    /\ oms' = [oms EXCEPT !["sup"] = IdleOms]
    /\ UNCHANGED <<infraVars, sigVars, calls, exVars, depth_cache, acctVars, risk>>

\* response['status'] == 'FILLED' (lines 84, 100, 111, 119): FILLED leaves the
\* inner loop; a None response raises, line 122 logs it and the outer loop
\* starts its next iteration; any other status repeats the inner loop
SupCheck ==
    /\ pc["sup"] = "check"
    /\ LET r == oms["sup"].response
       IN  /\ pc' = [pc EXCEPT !["sup"] =
                      IF r = NoneResponse \/ r.status = "FILLED" THEN "signal" ELSE "loop"]
           /\ supv' = IF r = NoneResponse \/ r.status = "FILLED"
                      THEN [side |-> None, qty |-> 0] ELSE supv
    /\ oms' = [oms EXCEPT !["sup"] = IdleOms]
    /\ UNCHANGED <<infraVars, sigVars, calls, exVars, depth_cache, acctVars, global_position, risk>>

----------------------------------------------------------------------------
(* Main.py: RiskManagement                                                 *)

Half == 1     \* liquid_ratio=0.5, in halves
Full == 2     \* liquid_ratio=1.0, in halves

LastRule == 4   \* the four rules of a cycle, in source order

IdleCycle(r) ==
    [r EXCEPT !.pos = 0, !.entry = 0, !.profit = 0,
              !.ratio = 0, !.type = FALSE, !.next = 0]

\* _currentProfit times 10 (the position is in tenths), lines 172-176
CurrentProfit(position, entryPrice, book) ==
    IF position > 0 THEN position * (get_best_bid(book) - entryPrice)
    ELSE position * (entryPrice - get_best_ask(book))

\* line 191: abs(_position * _entryPrice) > self.max_notional_portfolio
OverNotional(position, entryPrice) ==
    Abs(position * entryPrice) > 10 * MaxNotionalPortfolio
\* line 196, and line 214 with k = 3:
\* _currentProfit < -max_direct_loss * k * _entryPrice * abs(_position)
DirectLoss(profit, position, entryPrice, k) ==
    100 * profit < -(MaxDirectLossPct * k * entryPrice * Abs(position))
\* line 201: _currentProfit > self.take_profit_pnl
TakeProfit(profit) == profit > 10 * TakeProfitPnl
\* lines 205-206: the running peak
NewMaxPnl(max_pnl, realized) == IF max_pnl <= realized THEN realized ELSE max_pnl
\* lines 208-209: realized_pnl > 100 and realized_pnl / max_pnl <= 1 - max_draw_down
DrawDown(realized, max_pnl) ==
    realized > PnlFloor /\ 100 * realized <= (100 - MaxDrawDownPct) * max_pnl

\* Whether rule k of the cycle calls liquidate_position, on the locals r of
\* the cycle: 1 is lines 191-193, 2 is 196-203, 3 is 208-211, 4 is 213-217.
\* Rules 2 to 4 stand under the book test of line 195
RuleFires(k, r) ==
    IF k = 1 THEN OverNotional(r.pos, r.entry)
    ELSE IF get_order_book = NoDepth THEN FALSE
    ELSE IF k = 2 THEN \/ DirectLoss(r.profit, r.pos, r.entry, 1) /\ Abs(r.pos) > FlatFloor
                       \/ TakeProfit(r.profit)
    ELSE IF k = 3 THEN DrawDown(realized_pnl, NewMaxPnl(r.max_pnl, realized_pnl))
    ELSE DirectLoss(r.profit, r.pos, r.entry, WideStop)

\* a rule table in which every liquidation is a full one
RuleRatioAllFull(k, r) == Full

\* liquid_ratio of the liquidation rule k asks for
RuleRatio(k, r) ==
    IF k = 2 /\ DirectLoss(r.profit, r.pos, r.entry, 1) /\ Abs(r.pos) > FlatFloor THEN Full
    ELSE IF k = 4 THEN Full
    ELSE Half

\* The first rule from k on that fires, LastRule + 1 if none does
RECURSIVE FirstRule(_, _)
FirstRule(k, r) ==
    IF k > LastRule \/ RuleFires(k, r) THEN k ELSE FirstRule(k + 1, r)

\* liquidate_position is entered (lines 223-232): risk_flag is cleared; with
\* type set the position is read and one market order is requested, otherwise
\* the re-quote loop starts.  r is the record of the cycle so far, next the
\* rule the cycle goes on with afterwards
StartLiquidation(r, ratio, type, next) ==
    /\ risk' = [r EXCEPT !.risk_flag = FALSE, !.ratio = ratio, !.type = type,
                         !.next = next]
    /\ IF type
       THEN CallOms("risk", "MARKET",
                    IF global_position >= 0 THEN "SELL" ELSE "BUY",
                    2 * Abs(global_position), 0)
       ELSE /\ pc' = [pc EXCEPT !["risk"] = "liq_loop"]
            /\ UNCHANGED <<oms, calls>>

\* liquidate_position(type=True) is called between two cycles (no call of
\* Main.py passes type; lines 228-232 are entered by a caller that does): the
\* position is read under position_lock and one market order for abs(_position)
\* is requested from place_market_order_with_cancellation
MarketLiquidate ==
    /\ pc["risk"] = "cycle"
    /\ StartLiquidation(risk, Full, TRUE, LastRule + 1)
    /\ UNCHANGED <<infraVars, sigVars, exVars, depth_cache, acctVars, global_position, supv>>

\* lines 160-161: the position is read under position_lock
RiskReadPos ==
    /\ pc["risk"] = "cycle"
    /\ risk' = [risk EXCEPT !.pos = global_position]
    /\ pc' = [pc EXCEPT !["risk"] = "entry"]
    /\ UNCHANGED <<infraVars, sigVars, exVars, depth_cache, acctVars, global_position, oms, calls, supv>>

\* lines 164-176: the entry price is read from account_position_info (an empty
\* frame raises, line 220 logs, the cycle ends); without a book the cycle
\* ends; otherwise the open profit is computed from the book
RiskReadEntry ==
    /\ pc["risk"] = "entry"
    /\ IF account_position_info = EmptyFrame \/ get_order_book = NoDepth
       THEN /\ risk' = IdleCycle(risk)
            /\ pc' = [pc EXCEPT !["risk"] = "cycle"]
       ELSE /\ risk' = [risk EXCEPT
                  !.entry = account_position_info[1].entryPrice,
                  !.profit = CurrentProfit(risk.pos, account_position_info[1].entryPrice,
                                           get_order_book),
                  !.next = 1]
            /\ pc' = [pc EXCEPT !["risk"] = "rules"]
    /\ UNCHANGED <<infraVars, sigVars, exVars, depth_cache, acctVars, global_position, oms, calls, supv>>

\* lines 191-217, from rule risk.next up to the next call of
\* liquidate_position or the end of the cycle (the code between two awaits):
\* the rules are tested in source order on the locals of the cycle, max_pnl is
\* raised on the way past line 205
RiskRules ==
    /\ pc["risk"] = "rules"
    /\ LET k == FirstRule(risk.next, risk)
           r == IF risk.next <= 3 /\ 3 <= k /\ get_order_book # NoDepth
                THEN [risk EXCEPT !.max_pnl = NewMaxPnl(@, realized_pnl)]
                ELSE risk
       IN  IF k > LastRule
           THEN /\ risk' = IdleCycle(r)
                /\ pc' = [pc EXCEPT !["risk"] = "cycle"]
                /\ UNCHANGED <<oms, calls>>
           ELSE StartLiquidation(r, RuleRatio(k, r), FALSE, k + 1)
    /\ UNCHANGED <<infraVars, sigVars, exVars, depth_cache, acctVars, global_position, supv>>

\* a liquidation whose return ends the cycle
ReturnEndsCycle(r) ==
    /\ risk' = IdleCycle(r)
    /\ pc' = [pc EXCEPT !["risk"] = "cycle"]

\* liquidate_position returns to the cycle
ReturnFromLiquidation(r) ==
    /\ risk' = r
    /\ pc' = [pc EXCEPT !["risk"] = "rules"]

\* lines 235-241: the position is read under position_lock; at most 0.5 ends
\* the liquidation with risk_flag set
RiskLiqFlat ==
    /\ pc["risk"] = "liq_loop"
    /\ Abs(global_position) <= FlatFloor
    /\ ReturnFromLiquidation([risk EXCEPT !.risk_flag = TRUE])
    /\ UNCHANGED <<infraVars, sigVars, exVars, depth_cache, acctVars, global_position, oms, calls, supv>>

\* a liquidation that always quotes at the touch it joins
AggressiveLevelPassive(r) == 0

\* aggressive_level of the liquidation under way, in percent: line 217 passes
\* 0.5 (the rule after which the cycle ends), the other calls leave the default
\* of line 223
AggressiveLevel(r) ==
    IF r.next = LastRule + 1 THEN WideAggressive ELSE DefaultAggressive

\* _limit_square_price in hundredths, lines 244-246 for a long position and
\* 263-265 for a short one
LimitSquarePrice(position, book, level) ==
    IF position > 0
    THEN 100 * get_best_ask(book) - level * (get_best_ask(book) - get_best_bid(book))
    ELSE 100 * get_best_bid(book) + level * (get_best_ask(book) - get_best_bid(book))

\* lines 243-251 and 262-270: a limit order against the position read, for
\* abs(_position) * liquid_ratio (without a book the turn does nothing)
RiskLiqOrder ==
    /\ pc["risk"] = "liq_loop"
    /\ Abs(global_position) > FlatFloor
    /\ get_order_book # NoDepth
    /\ CallOms("risk", "LIMIT", IF global_position > 0 THEN "SELL" ELSE "BUY",
               Abs(global_position) * risk.ratio,
               LimitSquarePrice(global_position, get_order_book, AggressiveLevel(risk)))
    /\ UNCHANGED <<infraVars, sigVars, exVars, depth_cache, acctVars, global_position, supv, risk>>

\* lines 255-260 and 274-279 (limit), line 232 (market, the response is not
\* read): FILLED ends the liquidation with risk_flag set; a None response
\* raises, line 285 logs and liquidate_position returns; any other status
\* sleeps a second and repeats the loop
RiskCheck ==
    /\ pc["risk"] = "check"
    /\ LET r == oms["risk"].response
       IN  IF oms["risk"].kind = "MARKET" \/ r = NoneResponse
           THEN ReturnFromLiquidation(risk)
           ELSE IF r.status = "FILLED"
           THEN ReturnFromLiquidation([risk EXCEPT !.risk_flag = TRUE])
           ELSE /\ pc' = [pc EXCEPT !["risk"] = "liq_loop"]
                /\ UNCHANGED risk
    /\ oms' = [oms EXCEPT !["risk"] = IdleOms]
    /\ UNCHANGED <<infraVars, sigVars, calls, exVars, depth_cache, acctVars, global_position, supv>>

\* ---- lines 205-211 read one attribute at a time ----
\* The risk thread and the account thread are two threads: realized_pnl, which
\* the account thread stores (AccountGateWay.py 86), is read afresh at each of
\* the lines 205, 206, 208 and 209, and may change between two of them.

\* lines 191-203 fire no rule (or have returned) and the book is there: the
\* cycle arrives at line 205
DdEnter ==
    /\ pc["risk"] = "rules"
    /\ risk.next <= 3
    /\ get_order_book # NoDepth
    /\ \A k \in risk.next..2 : ~RuleFires(k, risk)
    /\ pc' = [pc EXCEPT !["risk"] = "dd_compare"]
    /\ risk' = [risk EXCEPT !.next = 3]
    /\ UNCHANGED <<infraVars, sigVars, exVars, depth_cache, acctVars, global_position, oms, calls, supv>>

\* line 205: if self.max_pnl <= self.binance_account.realized_pnl
DdCompare ==
    /\ pc["risk"] = "dd_compare"
    /\ pc' = [pc EXCEPT !["risk"] =
                 IF risk.max_pnl <= realized_pnl THEN "dd_store" ELSE "dd_floor"]
    /\ UNCHANGED <<infraVars, sigVars, exVars, depth_cache, acctVars, global_position, oms, calls, supv, risk>>

\* line 206: self.max_pnl = self.binance_account.realized_pnl
DdStore ==
    /\ pc["risk"] = "dd_store"
    /\ risk' = [risk EXCEPT !.max_pnl = realized_pnl]
    /\ pc' = [pc EXCEPT !["risk"] = "dd_floor"]
    /\ UNCHANGED <<infraVars, sigVars, exVars, depth_cache, acctVars, global_position, oms, calls, supv>>

\* line 208: if self.binance_account.realized_pnl > 100; otherwise the cycle
\* goes on with line 213
DdFloor ==
    /\ pc["risk"] = "dd_floor"
    /\ IF realized_pnl > PnlFloor
       THEN /\ pc' = [pc EXCEPT !["risk"] = "dd_divide"]
            /\ UNCHANGED risk
       ELSE /\ pc' = [pc EXCEPT !["risk"] = "rules"]
            /\ risk' = [risk EXCEPT !.next = LastRule]
    /\ UNCHANGED <<infraVars, sigVars, exVars, depth_cache, acctVars, global_position, oms, calls, supv>>

\* line 209: realized_pnl / self.max_pnl <= 1 - self.max_draw_down.  With
\* max_pnl 0 the quotient of a numpy float is inf and the test is false, the
\* quotient of a Python number raises ZeroDivisionError, which line 220 logs
\* and which ends the cycle
DdDivide ==
    /\ pc["risk"] = "dd_divide"
    /\ \/ /\ risk.max_pnl # 0
          /\ 100 * realized_pnl <= (100 - MaxDrawDownPct) * risk.max_pnl
          /\ StartLiquidation(risk, Half, FALSE, LastRule)
       \/ /\ risk.max_pnl = 0 \/ 100 * realized_pnl > (100 - MaxDrawDownPct) * risk.max_pnl
          /\ pc' = [pc EXCEPT !["risk"] = "rules"]
          /\ risk' = [risk EXCEPT !.next = LastRule]
          /\ UNCHANGED <<oms, calls>>
       \/ /\ risk.max_pnl = 0
          /\ ReturnEndsCycle(risk)
          /\ UNCHANGED <<oms, calls>>
    /\ UNCHANGED <<infraVars, sigVars, exVars, depth_cache, acctVars, global_position, supv>>

\* the rules of lines 191-203 and 213-217, which read no attribute of the
\* account thread twice
RiskRulesOutsideDrawdown ==
    /\ risk.next = LastRule \/ (risk.next <= 2 /\ FirstRule(risk.next, risk) <= 2)
    /\ RiskRules

----------------------------------------------------------------------------
(* BinanceMarketGateway.py: the depth task and the execution task          *)

MaxUpdates == 2      \* depth updates the stream delivers in one run
MaxErrors == 2       \* exceptions raised in the depth task in one run
MaxEvents == 2       \* order events the exchange emits in one run

\* the callbacks an application may register, and the registrations modelled
\* (Main.py 296 registers one)
DepthCallbackLists == {<<"a">>, <<"a", "b">>}

\* the book of the k-th depth update
BookOf(k) == <<2400 + k, 2402 + k>>

\* lines 88-91 with the socket open, or opened now
\* (FuturesDepthCacheManager.__aenter__ returns)
DepthOpen ==
    /\ dpc = "top"
    /\ dws' = TRUE
    /\ dpc' = "recv"
    /\ UNCHANGED <<cdVars, acVars, dnext, depth_callbacks, updates, delivered, errors, reconnects,
                   fresh, epc, evSent, evPending, sigVars, mainVars>>

\* line 91 raises when the socket is opened again after a reconnect: the
\* statement stands outside the try of line 94, the exception leaves the
\* coroutine and the task ends.  (The first open of a run succeeds here.)
DepthOpenFail ==
    /\ dpc = "top"
    /\ ~dws
    /\ reconnects > 0
    /\ errors < MaxErrors
    /\ errors' = errors + 1
    /\ dpc' = "dead"
    /\ UNCHANGED <<cdVars, acVars, dws, dnext, depth_callbacks, updates, delivered, reconnects,
                   fresh, epc, evSent, evPending, sigVars, mainVars>>

\* line 95: recv returns the next update, which replaces the cache; line 97
\* starts the for loop if a callback is registered
DepthRecv ==
    /\ dpc = "recv"
    /\ updates < MaxUpdates
    /\ updates' = updates + 1
    /\ depth_cache' = BookOf(updates + 1)
    /\ fresh' = TRUE
    /\ dnext' = 1
    /\ dpc' = IF depth_callbacks = <<>> THEN "top" ELSE "notify"
    /\ UNCHANGED <<cdVars, acVars, dws, depth_callbacks, delivered, errors, reconnects, epc, evSent,
                   evPending, sigVars, exVars, acctVars, global_position, pc, oms,
                   calls, supv, risk>>

\* line 95 raises (the stream failed): lines 101-104 log and drop the socket;
\* the cache is left as it is
DepthRecvError ==
    /\ dpc = "recv"
    /\ errors < MaxErrors
    /\ errors' = errors + 1
    /\ fresh' = FALSE
    /\ dws' = FALSE
    /\ dpc' = "reconnect"
    /\ UNCHANGED <<cdVars, acVars, dnext, depth_callbacks, updates, delivered, reconnects, epc,
                   evSent, evPending, sigVars, mainVars>>

\* lines 99-100, one turn of the for loop: the callback is called with the
\* book of get_order_book() and returns
DepthNotify ==
    /\ dpc = "notify"
    /\ delivered' = [delivered EXCEPT ![depth_callbacks[dnext]] = Append(@, get_order_book)]
    /\ dnext' = dnext + 1
    /\ dpc' = IF dnext = Len(depth_callbacks) THEN "top" ELSE "notify"
    /\ UNCHANGED <<cdVars, acVars, dws, depth_callbacks, updates, errors, reconnects, fresh, epc,
                   evSent, evPending, sigVars, mainVars>>

\* lines 99-104: the callback is called and raises; the for loop is left,
\* the socket dropped
DepthNotifyRaises ==
    /\ dpc = "notify"
    /\ errors < MaxErrors
    /\ delivered' = [delivered EXCEPT ![depth_callbacks[dnext]] = Append(@, get_order_book)]
    /\ errors' = errors + 1
    /\ dws' = FALSE
    /\ dpc' = "reconnect"
    /\ UNCHANGED <<cdVars, acVars, dnext, depth_callbacks, updates, reconnects, fresh, epc,
                   evSent, evPending, sigVars, mainVars>>

\* line 105: _reconnect_ws (74-76) creates a new AsyncClient
DepthReconnect ==
    /\ dpc = "reconnect"
    /\ reconnects' = reconnects + 1
    /\ dpc' = "top"
    /\ UNCHANGED <<cdVars, acVars, dws, dnext, depth_callbacks, updates, delivered, errors, fresh,
                   epc, evSent, evPending, sigVars, mainVars>>

\* line 105 raises inside the except block: nothing catches it, the task ends
DepthReconnectFail ==
    /\ dpc = "reconnect"
    /\ errors < MaxErrors
    /\ reconnects' = reconnects + 1
    /\ errors' = errors + 1
    /\ dpc' = "dead"
    /\ UNCHANGED <<cdVars, acVars, dws, dnext, depth_callbacks, updates, delivered, fresh,
                   epc, evSent, evPending, sigVars, mainVars>>

\* lines 128-135: the listen key is fetched and the websocket opened
ExecSubscribe ==
    /\ epc = "subscribe"
    /\ epc' = "recv"
    /\ UNCHANGED <<cdVars, acVars, dws, dpc, dnext, depth_callbacks, updates, delivered, errors,
                   reconnects, fresh, evSent, evPending, sigVars, mainVars>>

\* the exchange emits an order event on the user stream
ExecEvent ==
    /\ evSent < MaxEvents
    /\ evSent' = evSent + 1
    /\ evPending' = evPending + 1
    /\ UNCHANGED <<cdVars, acVars, dws, dpc, dnext, depth_callbacks, updates, delivered, errors,
                   reconnects, fresh, epc, sigVars, mainVars>>

\* lines 137-162: a message is received and handed to the callbacks
ExecRecv ==
    /\ epc = "recv"
    /\ evPending > 0
    /\ evPending' = evPending - 1
    /\ UNCHANGED <<cdVars, acVars, dws, dpc, dnext, depth_callbacks, updates, delivered, errors,
                   reconnects, fresh, epc, evSent, sigVars, mainVars>>

\* the websocket closes: ws.open is false and the while of line 136 ends, or
\* ws.recv raises ConnectionClosed; either way the coroutine is over
ExecClose ==
    /\ epc = "recv"
    /\ epc' = "ended"
    /\ UNCHANGED <<cdVars, acVars, dws, dpc, dnext, depth_callbacks, updates, delivered, errors,
                   reconnects, fresh, evSent, evPending, sigVars, mainVars>>

\* __init__ (34-61) and the tasks of _run_async_tasks (78-83) before they run
\* ---- _listen_candle_forever (lines 107-124) and register_candle_callback ----
NoTime == <<>>
CandleSleep == 58        \* seconds slept after a reconnect (line 124)
MaxTime == 130           \* seconds of one run
MaxCandleCallbacks == 1  \* callbacks registered in one run
\* seconds between two messages of the kline stream: the stream sends the
\* running candle as it changes, and the closed candle once a minute
ArrivalGaps == {1, 60}

register_candle_callback ==
    /\ candle_callbacks < MaxCandleCallbacks
    /\ candle_callbacks' = candle_callbacks + 1
    /\ UNCHANGED <<cpc, now, last_dispatch, gwVars, acVars, sigVars, mainVars>>

\* lines 113-119: a message arrives and is handed to every callback at once;
\* nothing is awaited between two messages but the next recv
CandleRecv(gap) ==
    /\ cpc = "recv"
    /\ now + gap <= MaxTime
    /\ now' = now + gap
    /\ last_dispatch' = IF candle_callbacks > 0 THEN <<now'>> ELSE last_dispatch
    /\ UNCHANGED <<cpc, candle_callbacks, gwVars, acVars, sigVars, mainVars>>

\* line 113 raises (the stream failed) and line 121 catches it
CandleRecvError(gap) ==
    /\ cpc = "recv"
    /\ now + gap <= MaxTime
    /\ now' = now + gap
    /\ cpc' = "reconnect"
    /\ UNCHANGED <<candle_callbacks, last_dispatch, gwVars, acVars, sigVars, mainVars>>

\* line 123
CandleReconnect ==
    /\ cpc = "reconnect"
    /\ cpc' = "sleep"
    /\ UNCHANGED <<candle_callbacks, now, last_dispatch, gwVars, acVars, sigVars, mainVars>>

\* line 123 raises inside the except block: the exception leaves the task
CandleReconnectFail ==
    /\ cpc = "reconnect"
    /\ cpc' = "dead"
    /\ UNCHANGED <<candle_callbacks, now, last_dispatch, gwVars, acVars, sigVars, mainVars>>

\* line 124
CandleSleepDone ==
    /\ cpc = "sleep"
    /\ now + CandleSleep <= MaxTime
    /\ now' = now + CandleSleep
    /\ cpc' = "recv"
    /\ UNCHANGED <<candle_callbacks, last_dispatch, gwVars, acVars, sigVars, mainVars>>

InitGateway ==
    /\ dws = FALSE
    /\ dpc = "top"
    /\ dnext = 1
    /\ updates = 0
    /\ errors = 0
    /\ reconnects = 0
    /\ fresh = FALSE
    /\ epc = "subscribe"
    /\ evSent = 0
    /\ evPending = 0
    /\ cpc = "recv"
    /\ candle_callbacks = 0
    /\ now = 0
    /\ last_dispatch = NoTime

----------------------------------------------------------------------------
(* AccountGateWay.py: the four polling tasks of BinanceAccount, which share *)
(* the event loop of one thread (_run_async_tasks, 63-70).  A task runs     *)
(* until it awaits something that suspends it; only then another task can   *)
(* run.                                                                     *)

Loops == {"pnl", "position", "orders", "trades"}
Idle == "idle"

\* the callbacks registered per record type: one (Main.py 301-304) or two
CallbackCounts == {1, 2}

\* loop l may run a step: it holds the event loop, or the event loop is free
\* and l is resumed
MayRun(l) == running \in {Idle, l}

\* The end of one iteration: _listen_accountpnl_forever (74-78) goes straight
\* to its next request and keeps the event loop; the other three await
\* asyncio.sleep(10) (lines 100, 120, 142), which suspends them
EndIteration(l) ==
    /\ lpc' = [lpc EXCEPT ![l] = IF l = "pnl" THEN "fetch" ELSE "sleep"]
    /\ running' = IF l = "pnl" THEN l ELSE Idle

\* lines 83, 107, 127, 149: the request is sent and the task awaits the answer
LoopCall(l) ==
    /\ lpc[l] = "fetch" /\ MayRun(l)
    /\ ~broken
    /\ tick' = [tick EXCEPT ![l] = 1 - @]
    /\ lok' = [lok EXCEPT ![l] = FALSE]
    /\ stored' = [stored EXCEPT ![l] = FALSE]
    /\ called' = [called EXCEPT ![l] = <<>>]
    /\ lpc' = [lpc EXCEPT ![l] = "wait"]
    /\ running' = Idle
    /\ UNCHANGED <<ncb, broken, jobs, keepalive_runs, gwVars, cdVars, sigVars, mainVars>>

\* the request raises before anything is awaited (a closed session, a missing
\* API secret when the request is signed): lines 92-93 (112-113, 133-134,
\* 157-158) log, and the iteration ends without the task having been suspended
LoopCallRaises(l) ==
    /\ lpc[l] = "fetch" /\ MayRun(l)
    /\ broken
    /\ tick' = [tick EXCEPT ![l] = 1 - @]
    /\ lok' = [lok EXCEPT ![l] = FALSE]
    /\ stored' = [stored EXCEPT ![l] = FALSE]
    /\ called' = [called EXCEPT ![l] = <<>>]
    /\ EndIteration(l)
    /\ UNCHANGED <<ncb, broken, jobs, keepalive_runs, gwVars, cdVars, sigVars, mainVars>>

\* the answer is an error (or the timeout of line 107): logged, the iteration
\* ends
LoopFail(l) ==
    /\ lpc[l] = "wait" /\ running = Idle
    /\ EndIteration(l)
    /\ UNCHANGED <<lok, stored, called, ncb, tick, broken, jobs, keepalive_runs,
                   gwVars, cdVars, sigVars, mainVars>>

\* the answer arrives: it is parsed and stored (lines 84-86, 108, 128-129,
\* 150-152) and the for loop over the callbacks starts
LoopResponse(l) ==
    /\ lpc[l] = "wait" /\ running = Idle
    /\ lok' = [lok EXCEPT ![l] = TRUE]
    /\ stored' = [stored EXCEPT ![l] = TRUE]
    /\ lpc' = [lpc EXCEPT ![l] = "notify"]
    /\ running' = l
    /\ UNCHANGED <<called, ncb, tick, broken, jobs, keepalive_runs,
                   gwVars, cdVars, sigVars, mainVars>>

\* lines 84-86 on a balance payload without a numeric crossUnPnl (the key is
\* absent and _parse_pnl_info puts 'N/A', or the list is empty):
\* account_pnl_info is stored, pd.to_numeric / pnl_info['pnl'] raises, lines
\* 92-93 log and the callbacks are not reached
PnlResponseWithoutPnl ==
    /\ lpc["pnl"] = "wait" /\ running = Idle
    /\ lok' = [lok EXCEPT !["pnl"] = TRUE]
    /\ stored' = [stored EXCEPT !["pnl"] = TRUE]
    /\ EndIteration("pnl")
    /\ UNCHANGED <<called, ncb, tick, broken, jobs, keepalive_runs,
                   gwVars, cdVars, sigVars, mainVars>>

\* lines 90-91 (110-111, 131-132, 155-156), one turn: the next callback is
\* called and returns
LoopNotify(l) ==
    /\ lpc[l] = "notify" /\ running = l
    /\ called' = [called EXCEPT ![l] = Append(@, Len(@) + 1)]
    /\ IF Len(called[l]) + 1 = ncb[l]
       THEN EndIteration(l)
       ELSE UNCHANGED <<lpc, running>>
    /\ UNCHANGED <<lok, stored, ncb, tick, broken, jobs, keepalive_runs,
                   gwVars, cdVars, sigVars, mainVars>>

\* the callback raises: the except of the fetch function logs, the callbacks
\* after it are not called
LoopNotifyRaises(l) ==
    /\ lpc[l] = "notify" /\ running = l
    /\ called' = [called EXCEPT ![l] = Append(@, Len(@) + 1)]
    /\ EndIteration(l)
    /\ UNCHANGED <<lok, stored, ncb, tick, broken, jobs, keepalive_runs,
                   gwVars, cdVars, sigVars, mainVars>>

\* asyncio.sleep(10) is over and the event loop is free: the task resumes
LoopWake(l) ==
    /\ lpc[l] = "sleep" /\ running = Idle
    /\ lpc' = [lpc EXCEPT ![l] = "fetch"]
    /\ running' = l
    /\ UNCHANGED <<lok, stored, called, ncb, tick, broken, jobs, keepalive_runs,
                   gwVars, cdVars, sigVars, mainVars>>

\* from now on the requests of the client raise before they are sent
ClientBreaks ==
    /\ ~broken
    /\ broken' = TRUE
    /\ UNCHANGED <<lpc, running, lok, stored, called, ncb, tick, jobs, keepalive_runs,
                   gwVars, cdVars, sigVars, mainVars>>

\* connect() (47-57) has returned: the four tasks are created, the keepalive
\* job is registered with schedule (line 57)
InitAccountLoops ==
    /\ lpc = [l \in Loops |-> "fetch"]
    /\ running = Idle
    /\ lok = [l \in Loops |-> FALSE]
    /\ stored = [l \in Loops |-> FALSE]
    /\ called = [l \in Loops |-> <<>>]
    /\ tick = [l \in Loops |-> 0]
    /\ broken = FALSE
    /\ jobs = {"_extend_listen_key"}
    /\ keepalive_runs = 0

----------------------------------------------------------------------------
(* The specifications                                                      *)

\* The state after construction and start-up (Main.py 19, 288-314)
InitMain ==
    /\ orders = <<>>
    /\ depth_cache = NoDepth
    /\ account_position_info = EmptyFrame
    /\ realized_pnl = 0
    /\ acctPc = "fetch"
    /\ global_position = 0
    /\ pc = [c \in Callers |-> IF c = "sup" THEN "signal" ELSE "cycle"]
    /\ oms = [c \in Callers |-> IdleOms]
    /\ calls = 0
    /\ supv = [side |-> None, qty |-> 0]
    /\ risk = [pos |-> 0, entry |-> 0, profit |-> 0, ratio |-> 0,
               type |-> FALSE, next |-> 0, max_pnl |-> 0, risk_flag |-> TRUE]

\* the gateway as Main.py 295-298 sets it up: one depth callback
InitGatewayMain ==
    /\ InitGateway
    /\ InitAccountLoops
    /\ ncb = [l \in Loops |-> 1]
    /\ depth_callbacks = <<"a">>
    /\ delivered = [c \in {"a", "b"} |-> <<>>]

Init ==
    /\ InitMain
    /\ InitGatewayMain
    /\ exPos \in InitPositions
    /\ candles = <<>>
    /\ order_queue = <<>>
    /\ side = None
    /\ quantity = 0
    /\ sgpc = "new"

Next ==
    \/ \E i \in 1..MaxCalls : ExFill(i)
    \/ DepthUpdate
    \/ AcctFetch
    \/ account_position_callback
    \/ \E c \in Callers : OmsFetchOk(c)
    \/ \E c \in Callers : OmsFetchFail(c)
    \/ \E c \in Callers : OmsCancel(c)
    \/ \E c \in Callers : OmsPlaceOk(c)
    \/ \E c \in Callers : OmsPlaceRejected(c)
    \/ \E c \in Callers : OmsReturn(c)
    \/ SupSignal
    \/ SupNoBook
    \/ SupLoop
    \/ SupCheck
    \/ RiskReadPos
    \/ RiskReadEntry
    \/ RiskRules
    \/ RiskLiqFlat
    \/ RiskLiqOrder
    \/ RiskCheck

Spec == Init /\ [][Next]_vars

InitSignal ==
    /\ candles \in Windows
    /\ order_queue = <<>>
    /\ side = None
    /\ quantity = 0
    /\ sgpc = "new"
    /\ InitMain
    /\ InitGatewayMain
    /\ exPos = 0

\* signal_generator.evaluate_signals()
SgEvaluate ==
    /\ sgpc = "new"
    /\ order_queue' = evaluate_signals(candles, order_queue)
    /\ sgpc' = "evaluated"
    /\ UNCHANGED <<candles, side, quantity, mainVars, infraVars>>

\* signal_generator.generate_signal(): Queue.get() blocks on an empty queue
SgGenerate ==
    /\ sgpc = "evaluated"
    /\ order_queue # <<>>
    /\ side' = Head(order_queue)[1]
    /\ quantity' = Head(order_queue)[2]
    /\ order_queue' = Tail(order_queue)
    /\ sgpc' = "returned"
    /\ UNCHANGED <<candles, mainVars, infraVars>>

NextSignal == SgEvaluate \/ SgGenerate

SpecSignal == InitSignal /\ [][NextSignal]_vars


InitGw ==
    /\ InitMain
    /\ InitGateway
    /\ InitAccountLoops
    /\ ncb = [l \in Loops |-> 1]
    /\ depth_callbacks \in DepthCallbackLists
    /\ delivered = [c \in {"a", "b"} |-> <<>>]
    /\ exPos = 0
    /\ candles = <<>>
    /\ order_queue = <<>>
    /\ side = None
    /\ quantity = 0
    /\ sgpc = "new"

DepthTask ==
    \/ DepthOpen
    \/ DepthNotify
    \/ DepthReconnect

ExecTask ==
    \/ ExecSubscribe
    \/ ExecRecv

NextGw ==
    \/ DepthTask
    \/ DepthOpenFail
    \/ DepthRecv
    \/ DepthRecvError
    \/ DepthNotifyRaises
    \/ DepthReconnectFail
    \/ ExecTask
    \/ ExecEvent
    \/ ExecClose

\* the event loop of the gateway thread (run_forever, line 83) runs every task
\* that is ready; what the stream and the exchange do is not constrained
SpecGateway == InitGw /\ [][NextGw]_vars /\ WF_vars(DepthTask) /\ WF_vars(ExecTask)


InitAc ==
    /\ InitMain
    /\ InitGateway
    /\ depth_callbacks = <<"a">>
    /\ delivered = [c \in {"a", "b"} |-> <<>>]
    /\ InitAccountLoops
    /\ \E n \in CallbackCounts : ncb = [l \in Loops |-> n]
    /\ exPos = 0
    /\ candles = <<>>
    /\ order_queue = <<>>
    /\ side = None
    /\ quantity = 0
    /\ sgpc = "new"

\* the steps of the task of loop l, and the answers of the exchange to it
LoopTask(l) ==
    \/ LoopCall(l)
    \/ LoopCallRaises(l)
    \/ LoopNotify(l)
    \/ LoopWake(l)

LoopAnswer(l) ==
    \/ LoopResponse(l)
    \/ LoopFail(l)

NextAc ==
    \/ \E l \in Loops : LoopTask(l)
    \/ \E l \in Loops : LoopAnswer(l)
    \/ \E l \in Loops : LoopNotifyRaises(l)
    \/ PnlResponseWithoutPnl
    \/ ClientBreaks

\* the event loop (run_forever, line 70) resumes every task that is ready, and
\* every request sent is answered, with a result or with an error
SpecAccount ==
    /\ InitAc
    /\ [][NextAc]_vars
    /\ \A l \in Loops : WF_vars(LoopTask(l)) /\ WF_vars(LoopAnswer(l))


\* The risk manager on its own: the position the account reports is already
\* stored, the book is there; positions of 4.0 (notional above the limit) and
\* 1.6, a book far below the entry price and one next to it
RiskPositions == {40, -40, 16}
RiskBooks == {<<2400, 2402>>, <<2990, 2992>>}

InitRisk ==
    /\ InitGatewayMain
    /\ exPos \in RiskPositions
    /\ global_position = exPos
    /\ account_position_info = << [positionAmt |-> exPos, entryPrice |-> EntryPrice] >>
    /\ depth_cache \in RiskBooks
    /\ orders = <<>>
    /\ realized_pnl = 0
    /\ acctPc = "fetch"
    /\ pc = [c \in Callers |-> IF c = "sup" THEN "signal" ELSE "cycle"]
    /\ oms = [c \in Callers |-> IdleOms]
    /\ calls = 0
    /\ supv = [side |-> None, qty |-> 0]
    /\ risk = [pos |-> 0, entry |-> 0, profit |-> 0, ratio |-> 0,
               type |-> FALSE, next |-> 0, max_pnl |-> 0, risk_flag |-> TRUE]
    /\ candles = <<>>
    /\ order_queue = <<>>
    /\ side = None
    /\ quantity = 0
    /\ sgpc = "new"

NextRisk ==
    \/ \E i \in 1..MaxCalls : ExFill(i)
    \/ AcctFetch
    \/ account_position_callback
    \/ AcctPnl
    \/ OmsFetchOk("risk")
    \/ OmsFetchFail("risk")
    \/ OmsCancel("risk")
    \/ OmsPlaceOk("risk")
    \/ OmsPlaceRejected("risk")
    \/ OmsReturn("risk")
    \/ RiskReadPos
    \/ RiskReadEntry
    \/ RiskRules
    \/ RiskLiqFlat
    \/ RiskLiqOrder
    \/ RiskCheck

SpecRisk == InitRisk /\ [][NextRisk]_vars


\* The supervisor on its own, inside its inner loop: a signal has been drawn,
\* the book is there, the stored position is the one on the exchange, on
\* either side of the limit of 1.5, at it and within it
SupPositions == {-17, -16, -15, 0, 15, 16, 17}
SupSignals == {"BUY", "SELL"} \X {BaseQty, DoubleQty}

InitSup ==
    /\ InitGatewayMain
    /\ exPos \in SupPositions
    /\ global_position = exPos
    /\ account_position_info = << [positionAmt |-> exPos, entryPrice |-> EntryPrice] >>
    /\ depth_cache \in Books
    /\ orders = <<>>
    /\ realized_pnl = 0
    /\ acctPc = "fetch"
    /\ pc = [c \in Callers |-> IF c = "sup" THEN "loop" ELSE "cycle"]
    /\ oms = [c \in Callers |-> IdleOms]
    /\ calls = 0
    /\ \E sg \in SupSignals : supv = [side |-> sg[1], qty |-> sg[2]]
    /\ risk = [pos |-> 0, entry |-> 0, profit |-> 0, ratio |-> 0,
               type |-> FALSE, next |-> 0, max_pnl |-> 0, risk_flag |-> TRUE]
    /\ candles = <<>>
    /\ order_queue = <<>>
    /\ side = None
    /\ quantity = 0
    /\ sgpc = "new"

NextSup ==
    \/ \E i \in 1..MaxCalls : ExFill(i)
    \/ AcctFetch
    \/ account_position_callback
    \/ OmsFetchOk("sup")
    \/ OmsFetchFail("sup")
    \/ OmsCancel("sup")
    \/ OmsPlaceOk("sup")
    \/ OmsPlaceRejected("sup")
    \/ OmsReturn("sup")
    \/ SupSignal
    \/ SupLoop
    \/ SupCheck

SpecSup == InitSup /\ [][NextSup]_vars


\* The supervisor from its first iteration on, with every failure of an
\* iteration: the book may not be there yet, any statement before the order
\* manager may raise, the exchange may reject
InitTrade ==
    /\ InitGatewayMain
    /\ exPos \in SupPositions
    /\ global_position = exPos
    /\ account_position_info = << [positionAmt |-> exPos, entryPrice |-> EntryPrice] >>
    /\ depth_cache \in Books \cup {NoDepth}
    /\ orders = <<>>
    /\ realized_pnl = 0
    /\ acctPc = "fetch"
    /\ pc = [c \in Callers |-> IF c = "sup" THEN "signal" ELSE "cycle"]
    /\ oms = [c \in Callers |-> IdleOms]
    /\ calls = 0
    /\ supv = [side |-> None, qty |-> 0]
    /\ risk = [pos |-> 0, entry |-> 0, profit |-> 0, ratio |-> 0,
               type |-> FALSE, next |-> 0, max_pnl |-> 0, risk_flag |-> TRUE]
    /\ candles = <<>>
    /\ order_queue = <<>>
    /\ side = None
    /\ quantity = 0
    /\ sgpc = "new"

NextTrade ==
    \/ NextSup
    \/ SupNoBook
    \/ SupRaises
    \/ DepthUpdate

SpecTrade == InitTrade /\ [][NextTrade]_vars

\* The fill-wait loop run for ever.  The exchange lists open orders only
\* (futures_get_open_orders), so once no order is open and no call of the
\* order manager is under way, the closed orders and the count of calls are
\* dropped from the state; order ids start again
ExForgetClosed ==
    /\ orders # <<>> \/ calls > 0
    /\ OpenIds = {}
    /\ \A c \in Callers : oms[c] = IdleOms
    /\ orders' = <<>>
    /\ calls' = 0
    /\ UNCHANGED <<infraVars, sigVars, exPos, depth_cache, acctVars, global_position, pc, oms, supv, risk>>

\* one step of the fill-wait loop of lines 67-120, or of the call of the order
\* manager it awaits
FillWaitTask ==
    \/ SupLoop
    \/ SupCheck
    \/ OmsFetchOk("sup")
    \/ OmsFetchFail("sup")
    \/ OmsCancel("sup")
    \/ OmsPlaceOk("sup")
    \/ OmsPlaceRejected("sup")
    \/ OmsReturn("sup")

\* one step of the position poll
PositionPoll == AcctFetch \/ account_position_callback

\* the supervisor in its inner loop with a signal of 0.1, the position at
\* the limit
FillWaitPositions == {MaxLimitSinglePair}
\* an order is filled while the fill leaves the position this near the limit
PositionSpan == 3

FillWaitFill(i) ==
    /\ ExFill(i)
    /\ Abs(exPos' - MaxLimitSinglePair) <= PositionSpan

InitFillWait ==
    /\ InitSup
    /\ exPos \in FillWaitPositions
    /\ supv.qty = BaseQty

NextFillWait ==
    \/ FillWaitTask
    \/ PositionPoll
    \/ \E i \in 1..MaxCalls : FillWaitFill(i)
    \/ ExForgetClosed

\* the event loop runs the supervisor, the account thread runs the poll, and
\* the exchange fills every order that stays open
SpecFillWait ==
    /\ InitFillWait
    /\ [][NextFillWait]_vars
    /\ WF_vars(FillWaitTask)
    /\ WF_vars(PositionPoll)
    /\ \A i \in 1..MaxCalls : WF_vars(FillWaitFill(i))
    /\ WF_vars(ExForgetClosed)

\* The risk manager and the account polls, where a position poll may come
\* back empty
NextPoll ==
    \/ NextRisk
    \/ AcctFetchEmpty

SpecPoll == InitRisk /\ [][NextPoll]_vars

\* One liquidation with liquid_ratio 0.5 from its start to its return: the
\* state in which the max-notional rule (lines 191-193) has just entered
\* liquidate_position, and the steps up to the return
LiqPositions == {40, -40}

InitLiq ==
    /\ InitGatewayMain
    /\ exPos \in LiqPositions
    /\ OverNotional(exPos, EntryPrice)
    /\ global_position = exPos
    /\ account_position_info = << [positionAmt |-> exPos, entryPrice |-> EntryPrice] >>
    /\ depth_cache \in Books
    /\ orders = <<>>
    /\ realized_pnl = 0
    /\ acctPc = "fetch"
    /\ pc = [c \in Callers |-> IF c = "sup" THEN "signal" ELSE "liq_loop"]
    /\ oms = [c \in Callers |-> IdleOms]
    /\ calls = 0
    /\ supv = [side |-> None, qty |-> 0]
    /\ risk = [pos |-> exPos, entry |-> EntryPrice,
               profit |-> CurrentProfit(exPos, EntryPrice, depth_cache),
               ratio |-> Half, type |-> FALSE, next |-> 2, max_pnl |-> 0,
               risk_flag |-> FALSE]
    /\ candles = <<>>
    /\ order_queue = <<>>
    /\ side = None
    /\ quantity = 0
    /\ sgpc = "new"

NextLiq ==
    \/ \E i \in 1..MaxCalls : ExFill(i)
    \/ AcctFetch
    \/ account_position_callback
    \/ OmsFetchOk("risk")
    \/ OmsFetchFail("risk")
    \/ OmsCancel("risk")
    \/ OmsPlaceOk("risk")
    \/ OmsPlaceRejected("risk")
    \/ OmsReturn("risk")
    \/ RiskLiqFlat
    \/ RiskLiqOrder
    \/ RiskCheck

SpecLiq == InitLiq /\ [][NextLiq]_vars

\* The risk manager over books below, near and above the entry price, and
\* before the first depth update: an open loss beyond the stop, an open profit
\* beyond the take-profit threshold, neither, and no book
RulePositions == {16, -16, 4, 40}
RuleBooks == {<<2400, 2402>>, <<2990, 2992>>, <<3100, 3102>>}

InitRules ==
    /\ InitGatewayMain
    /\ exPos \in RulePositions
    /\ global_position = exPos
    /\ account_position_info = << [positionAmt |-> exPos, entryPrice |-> EntryPrice] >>
    /\ depth_cache \in RuleBooks \cup {NoDepth}
    /\ orders = <<>>
    /\ realized_pnl = 0
    /\ acctPc = "fetch"
    /\ pc = [c \in Callers |-> IF c = "sup" THEN "signal" ELSE "cycle"]
    /\ oms = [c \in Callers |-> IdleOms]
    /\ calls = 0
    /\ supv = [side |-> None, qty |-> 0]
    /\ risk = [pos |-> 0, entry |-> 0, profit |-> 0, ratio |-> 0,
               type |-> FALSE, next |-> 0, max_pnl |-> 0, risk_flag |-> TRUE]
    /\ candles = <<>>
    /\ order_queue = <<>>
    /\ side = None
    /\ quantity = 0
    /\ sgpc = "new"

NextRules ==
    \/ \E i \in 1..MaxCalls : ExFill(i)
    \/ AcctFetch
    \/ account_position_callback
    \/ OmsFetchOk("risk")
    \/ OmsFetchFail("risk")
    \/ OmsCancel("risk")
    \/ OmsPlaceOk("risk")
    \/ OmsPlaceRejected("risk")
    \/ OmsReturn("risk")
    \/ RiskReadPos
    \/ RiskReadEntry
    \/ RiskRules
    \/ RiskLiqFlat
    \/ RiskLiqOrder
    \/ RiskCheck

SpecRules == InitRules /\ [][NextRules]_vars

\* The risk manager with a caller of the market path
NextMarket ==
    \/ NextRisk
    \/ MarketLiquidate

SpecMarket == InitRisk /\ [][NextMarket]_vars

\* ---- the candle task alone, with the callbacks registered at any time ----
NextCandle ==
    \/ register_candle_callback
    \/ \E gap \in ArrivalGaps : CandleRecv(gap)
    \/ \E gap \in ArrivalGaps : CandleRecvError(gap)
    \/ CandleReconnect
    \/ CandleReconnectFail
    \/ CandleSleepDone

SpecCandle == InitGw /\ [][NextCandle]_vars

\* The supervisor of SpecTrade scheduled for ever: asyncio.run (Main.py 314)
\* keeps running trading_logic whenever it has a step to take
SupTask ==
    \/ SupSignal
    \/ SupNoBook
    \/ SupLoop
    \/ SupCheck
    \/ OmsFetchOk("sup")
    \/ OmsFetchFail("sup")
    \/ OmsCancel("sup")
    \/ OmsPlaceOk("sup")
    \/ OmsPlaceRejected("sup")
    \/ OmsReturn("sup")

SpecPull == InitTrade /\ [][NextTrade]_vars /\ WF_vars(SupTask)

\* One liquidation with liquid_ratio 1.0 from its start to its return: the
\* state in which the direct-loss stop (lines 196-199) has just entered
\* liquidate_position, the stored position being the one on the exchange
StopPositions == {16, -16}

InitStop ==
    /\ InitGatewayMain
    /\ exPos \in StopPositions
    /\ global_position = exPos
    /\ account_position_info = << [positionAmt |-> exPos, entryPrice |-> EntryPrice] >>
    /\ depth_cache \in Books
    /\ orders = <<>>
    /\ realized_pnl = 0
    /\ acctPc = "fetch"
    /\ pc = [c \in Callers |-> IF c = "sup" THEN "signal" ELSE "liq_loop"]
    /\ oms = [c \in Callers |-> IdleOms]
    /\ calls = 0
    /\ supv = [side |-> None, qty |-> 0]
    /\ risk = [pos |-> exPos, entry |-> EntryPrice,
               profit |-> CurrentProfit(exPos, EntryPrice, depth_cache),
               ratio |-> Full, type |-> FALSE, next |-> 3, max_pnl |-> 0,
               risk_flag |-> FALSE]
    /\ ~OverNotional(risk.pos, risk.entry)
    /\ DirectLoss(risk.profit, risk.pos, risk.entry, 1) /\ Abs(risk.pos) > FlatFloor
    /\ candles = <<>>
    /\ order_queue = <<>>
    /\ side = None
    /\ quantity = 0
    /\ sgpc = "new"

SpecStop == InitStop /\ [][NextLiq]_vars

\* The risk cycle with lines 205-211 taken one read at a time, and the PnL
\* poll of the account thread between any two of them
DdPositions == {16}

InitDrawdown ==
    /\ InitRules
    /\ exPos \in DdPositions
    /\ depth_cache \in RiskBooks

NextDrawdown ==
    \/ \E i \in 1..MaxCalls : ExFill(i)
    \/ AcctFetch
    \/ account_position_callback
    \/ AcctPnl
    \/ OmsFetchOk("risk")
    \/ OmsFetchFail("risk")
    \/ OmsCancel("risk")
    \/ OmsPlaceOk("risk")
    \/ OmsPlaceRejected("risk")
    \/ OmsReturn("risk")
    \/ RiskReadPos
    \/ RiskReadEntry
    \/ RiskRulesOutsideDrawdown
    \/ DdEnter
    \/ DdCompare
    \/ DdStore
    \/ DdFloor
    \/ DdDivide
    \/ RiskLiqFlat
    \/ RiskLiqOrder
    \/ RiskCheck

SpecDrawdown == InitDrawdown /\ [][NextDrawdown]_vars

----------------------------------------------------------------------------
(* Claims about the order manager and the stored position, checked under   *)
(* Spec                                                                    *)

Submitted(c) == pc[c] \in {"oms_sleep", "check"}
OpenOf(c) == {i \in OpenIds : orders[i].owner = c}

\* C1: in every call, whatever the exchange answers, the order is submitted
\* only after a cancel request has been issued for every order that was open
\* when the call started.
C1_CancelBeforePlace ==
    \A c \in Callers :
        (Submitted(c) /\ oms[c].attempts > 0) => oms[c].openAtStart \subseteq oms[c].cancelReq

\* C2: each initiator has at most one of its orders open (NEW or
\* PARTIALLY_FILLED) on the exchange.
C2_OneOpenPerInitiator ==
    \A c \in Callers : Cardinality(OpenOf(c)) <= 1

\* C3: a call makes exactly one submission attempt: none before the cancel
\* step is over, one when the settling wait starts and when the call returns,
\* whether no order was open, the cancels were sent, or the fetch failed.
C3_OneAttemptPerCall ==
    \A c \in Callers :
        /\ pc[c] \in {"oms_fetch", "oms_cancel", "oms_place"} => oms[c].attempts = 0
        /\ Submitted(c) => oms[c].attempts = 1

\* the fetch of the open orders failed while an order was open, and the call
\* has made its one attempt
C3_Witness ==
    \E c \in Callers :
        /\ pc[c] = "oms_sleep" /\ ~oms[c].fetchOk
        /\ oms[c].openAtStart # {} /\ oms[c].attempts = 1

\* C4: the status returned at the end of the settling wait is the order's
\* status on the exchange at that moment; an order filled during the wait
\* comes back FILLED.
C4_ReturnsStatusAfterWait ==
    [][\A c \in Callers :
          (/\ pc[c] = "oms_sleep" /\ pc'[c] = "check"
           /\ oms[c].response # NoneResponse
           /\ orders[oms[c].response.orderId].status = "FILLED")
          => oms'[c].response.status = "FILLED"]_vars

\* C5: the quantity and the entry price a risk cycle works with come from the
\* same position update: when the entry price is read, the stored frame
\* carries the quantity the cycle read.
C5_SameUpdate ==
    [][(/\ pc["risk"] = "entry" /\ pc'["risk"] = "rules")
          => risk.pos = account_position_info[1].positionAmt]_vars

\* C6: global_position changes only in the position callback of the account
\* gateway.
C6_OnlyCallbackWrites ==
    [][global_position' # global_position
          => acctPc = "notify" /\ acctPc' = "fetch"]_vars

\* the supervisor holds a FILLED response for its order while the stored
\* position still is the one from before the fill
C6_Witness ==
    /\ pc["sup"] = "check"
    /\ oms["sup"].response.status = "FILLED"
    /\ global_position # exPos
    /\ global_position # 0

----------------------------------------------------------------------------
(* Claims about the signal engine, checked under SpecSignal                *)

LongEnough == Len(candles) >= MinWindow
RsiNow == calculate_rsi(candles)
MaNow == signal_simple_ma(candles)
VwapNow == signal_vwap(candles)

\* C7: on a window of at least 60 closes whose RSI(14) is <= 25 or >= 75,
\* evaluate_signals enqueues exactly the RSI side at 0.1 and generate_signal
\* returns it, whatever the moving-average and VWAP signals are.
C7_RsiPriority ==
    LongEnough =>
        /\ RsiLeq(RsiNow, RsiBuy) =>
              /\ sgpc = "evaluated" => order_queue = << <<"BUY", BaseQty>> >>
              /\ sgpc = "returned" => side = "BUY" /\ quantity = BaseQty
        /\ RsiGeq(RsiNow, RsiSell) =>
              /\ sgpc = "evaluated" => order_queue = << <<"SELL", BaseQty>> >>
              /\ sgpc = "returned" => side = "SELL" /\ quantity = BaseQty

\* RSI says BUY while both other signals say SELL, and BUY at 0.1 came back
C7_Witness ==
    /\ sgpc = "returned" /\ LongEnough
    /\ RsiLeq(RsiNow, RsiBuy)
    /\ MaNow = "SELL" /\ VwapNow = "SELL"
    /\ side = "BUY" /\ quantity = BaseQty

C8_WitnessAgree ==
    /\ sgpc = "returned" /\ LongEnough /\ signal_rsi(candles) = None
    /\ MaNow = "BUY" /\ VwapNow = "BUY"
    /\ side = "BUY" /\ quantity = DoubleQty

StrictlyIncreasing(c) == \A i \in 2..Len(c) : c[i] > c[i - 1]
Ramp == Len(candles) = RampLen /\ StrictlyIncreasing(candles)

\* C9 as stated: on 70 strictly increasing closes the moving-average signal
\* is BUY, the VWAP signal is BUY and the result is (BUY, 0.2).
C9_AsStated ==
    (Ramp /\ sgpc = "returned") =>
        /\ MaNow = "BUY" /\ VwapNow = "BUY"
        /\ side = "BUY" /\ quantity = DoubleQty

\* C9 amended: on 70 strictly increasing closes the moving-average signal is
\* BUY, the VWAP signal is SELL (the last close is above its 5-row mean),
\* RSI is 100, and the result is the RSI signal (SELL, 0.1).
C9_RampSellsAtBase ==
    (Ramp /\ sgpc = "returned") =>
        /\ MaNow = "BUY" /\ VwapNow = "SELL"
        /\ RsiNow # NaN /\ RsiNow[1] = 100 * RsiNow[2]
        /\ side = "SELL" /\ quantity = BaseQty

C9_Witness == Ramp /\ sgpc = "returned" /\ side = "SELL"

\* C10: evaluate_signals on fewer than 60 rows enqueues nothing; on at least
\* 60 rows it enqueues at most one signal.
C10_MinWindow ==
    sgpc = "evaluated" =>
        /\ ~LongEnough => order_queue = <<>>
        /\ LongEnough => Len(order_queue) <= 1

\* a window of 59 rows was evaluated and the queue is empty
C10_Witness ==
    sgpc = "evaluated" /\ Len(candles) = MinWindow - 1 /\ order_queue = <<>>

----------------------------------------------------------------------------
(* Claims about the market gateway, checked under SpecGateway              *)

DepthTaskAtRest == dpc \in {"top", "recv"}

\* C11: after N errors of the depth task (in receive, in a callback, while
\* the session is re-established) at least N reconnect attempts were made, and
\* the listen loop has not stopped.
C11_LoopSurvivesErrors ==
    /\ dpc # "dead"
    /\ DepthTaskAtRest => reconnects >= errors

\* C12: get_order_book returns a snapshot only if an update was received
\* since the start and since the most recent stream error.
C12_SnapshotOnlyIfFresh == get_order_book # NoDepth => fresh

\* C13: once an update is processed, every registered callback has been
\* called exactly once for each update received so far, with the book of that
\* update, in arrival order.
C13_EveryCallbackOncePerUpdate ==
    DepthTaskAtRest =>
        \A i \in 1..Len(depth_callbacks) :
            delivered[depth_callbacks[i]] = [k \in 1..updates |-> BookOf(k)]

\* C14: after the user stream closed (with nothing left undelivered), every
\* order event the exchange emits later is eventually handed to the
\* execution callbacks.
C14_LaterEventsDelivered ==
    []((epc = "ended" /\ evPending = 0) => []((evPending > 0) ~> (evPending = 0)))

----------------------------------------------------------------------------
(* Claims about the account gateway, checked under SpecAccount             *)

\* C15: whatever exceptions are raised in the four loops, each loop goes on
\* attempting its request infinitely often.
C15_EveryLoopKeepsFetching ==
    \A l \in Loops : []<><<LoopCall(l) \/ LoopCallRaises(l)>>_vars

\* C16: when an iteration whose request was answered is over, the cached
\* record was replaced and each registered callback was called once, in
\* registration order; no callback is called before the record is stored.
C16_StoreThenEveryCallback ==
    \A l \in Loops :
        /\ called[l] # <<>> => stored[l]
        /\ (lok[l] /\ lpc[l] \in {"fetch", "sleep"}) =>
              /\ stored[l]
              /\ called[l] = [i \in 1..ncb[l] |-> i]

\* C17: after connect() the keepalive job runs again and again.
C17_KeepaliveRuns == []<>(jobs # {} /\ keepalive_runs > 0)

----------------------------------------------------------------------------
(* Claims about the risk manager, checked under SpecRisk                   *)

InLiquidation == pc["risk"] \in {"liq_loop", "oms_fetch", "oms_cancel", "oms_place",
                                 "oms_sleep", "check"}

\* the locals of the cycle are over the notional limit and under the
\* direct-loss stop, with more than the floor of 0.5
BothFire(r) ==
    /\ OverNotional(r.pos, r.entry)
    /\ DirectLoss(r.profit, r.pos, r.entry, 1)
    /\ Abs(r.pos) > FlatFloor

\* C18: in a cycle over the notional limit and under the direct-loss stop,
\* the 50% liquidation is started first; when it returns the same cycle goes
\* on with its locals and starts the 100% liquidation.
C18_BothLiquidationsInOrder ==
    [][(BothFire(risk) /\ pc'["risk"] # pc["risk"]) =>
         /\ (pc["risk"] = "rules" /\ risk.next = 1) =>
               /\ pc'["risk"] = "liq_loop"
               /\ risk'.ratio = Half /\ risk'.next = 2
         /\ (pc["risk"] \in {"liq_loop", "check"} /\ risk.next = 2
               /\ pc'["risk"] \notin {"liq_loop", "oms_fetch"}) =>
               /\ pc'["risk"] = "rules"
               /\ risk'.next = 2
               /\ risk'.pos = risk.pos /\ risk'.profit = risk.profit
         /\ (pc["risk"] = "rules" /\ risk.next = 2) =>
               /\ pc'["risk"] = "liq_loop"
               /\ risk'.ratio = Full /\ risk'.next = 3]_vars

\* the 50% liquidation has returned and the 100% liquidation of the same
\* cycle has placed an order
C18_Witness ==
    /\ BothFire(risk)
    /\ pc["risk"] = "oms_sleep"
    /\ risk.next = 3 /\ risk.ratio = Full
    /\ oms["risk"].attempts = 1
    /\ calls = 2

\* the drawdown condition as the spec states it: the peak has exceeded the
\* floor and the current realized PnL is at most (1 - max_draw_down) of it
DrawDownAsStated(realized, peak) ==
    peak > PnlFloor /\ 100 * realized <= (100 - MaxDrawDownPct) * peak

\* C19: a cycle that reaches the drawdown rule with the stated condition true
\* (peak 200, current 100 in particular) starts the 50% liquidation.
C19_DrawdownLiquidates ==
    [][(/\ pc["risk"] = "rules" /\ pc'["risk"] # "rules"
        /\ risk.next <= 3 /\ FirstRule(risk.next, risk) >= 3
        /\ get_order_book # NoDepth
        /\ DrawDownAsStated(realized_pnl, NewMaxPnl(risk.max_pnl, realized_pnl)))
       => /\ pc'["risk"] = "liq_loop"
          /\ risk'.ratio = Half /\ risk'.next = 4]_vars

----------------------------------------------------------------------------
(* Claims about the supervisor, checked under SpecSup                      *)

\* the order the step hands to the order manager, and the order the exchange
\* accepts in the step
SupCalls == pc["sup"] = "loop" /\ pc'["sup"] = "oms_fetch"
SupSubmits == pc["sup"] = "oms_place" /\ Len(orders') = Len(orders) + 1

\* C20: an inner-loop turn that reads a position above the limit hands over
\* a SELL, the signal's own order if the signal is SELL and otherwise an order
\* for |position - limit| + 0.3; below minus the limit the same with BUY; and
\* the order submitted in the turn is the one handed over.
C20_ReduceOnlyBeyondLimit ==
    [][/\ (SupCalls /\ global_position > MaxLimitSinglePair) =>
              /\ oms'["sup"].side = "SELL"
              /\ oms'["sup"].qty =
                    IF supv.side = "SELL" THEN 2 * supv.qty
                    ELSE 2 * (Abs(global_position - MaxLimitSinglePair) + ReduceExtra)
       /\ (SupCalls /\ global_position < -MaxLimitSinglePair) =>
              /\ oms'["sup"].side = "BUY"
              /\ oms'["sup"].qty =
                    IF supv.side = "BUY" THEN 2 * supv.qty
                    ELSE 2 * (Abs(global_position + MaxLimitSinglePair) + ReduceExtra)
       /\ SupSubmits =>
              /\ orders'[Len(orders')].owner = "sup"
              /\ orders'[Len(orders')].side = oms["sup"].side
              /\ 2 * orders'[Len(orders')].qty = oms["sup"].qty]_vars

\* a BUY signal above the limit: the synthesized SELL was submitted
C20_Witness ==
    /\ pc["sup"] = "oms_sleep"
    /\ supv.side = "BUY"
    /\ global_position > MaxLimitSinglePair
    /\ oms["sup"].side = "SELL"
    /\ oms["sup"].qty = 2 * (global_position - MaxLimitSinglePair + ReduceExtra)
    /\ oms["sup"].response # NoneResponse
    /\ orders[oms["sup"].response.orderId].side = "SELL"

----------------------------------------------------------------------------
(* Claims about the supervisor loop, checked under SpecTrade               *)

\* the positions of trading_logic while its while of line 55 runs
SupAlive ==
    {"signal", "blocked", "loop", "oms_fetch", "oms_cancel", "oms_place", "oms_sleep", "check"}

\* the step raises inside the iteration: before the order manager is called,
\* or on reading the status of a None response
SupIterationRaises ==
    \/ SupRaises
    \/ pc["sup"] = "check" /\ oms["sup"].response = NoneResponse /\ pc'["sup"] # "check"

\* C21: an exception raised in an iteration of the supervisor loop is caught
\* and the supervisor is at the start of another iteration; the loop never
\* terminates.
C21_IterationErrorsCaught ==
    /\ [](pc["sup"] \in SupAlive)
    /\ [][SupIterationRaises => pc'["sup"] = "signal"]_vars

\* the exchange rejected the only order so far, reading the missing response
\* raised, and the supervisor is in its inner loop again with a new signal
C21_Witness ==
    /\ pc["sup"] = "loop"
    /\ calls = 1
    /\ orders = <<>>
    /\ supv.qty # 0

----------------------------------------------------------------------------
(* Claims about the fill-wait loop, checked under SpecFillWait             *)

\* no order is taken from the exchange before it is filled
NoOrderCanceled == \A i \in 1..Len(orders) : orders[i].status # "CANCELED"

\* every order the supervisor submits is filled in the end: none is cancelled
\* and none stays open for ever
EveryOrderFilled ==
    /\ []NoOrderCanceled
    /\ \A i \in 1..MaxCalls : []<>(i \notin OpenIds)

\* C22: if every order the supervisor submits is filled in the end, a
\* supervisor in its fill-wait loop with a signal of non-zero quantity leaves
\* the loop in the end.
C22_FillWaitExits ==
    EveryOrderFilled =>
        ((pc["sup"] = "loop" /\ supv.qty # 0) ~> (pc["sup"] = "signal"))

----------------------------------------------------------------------------
(* Claims about rejected placements, checked under Spec                    *)

\* the step in which the exchange rejects the placement of caller c
Rejects(c) == pc[c] = "oms_place" /\ pc'[c] = "oms_sleep" /\ orders' = orders

\* caller c reads the result of a limit placement that did not report FILLED
ReadsUnfilled(c) ==
    /\ pc[c] = "check"
    /\ pc'[c] # "check"
    /\ oms[c].kind = "LIMIT"
    /\ oms[c].response = NoneResponse \/ oms[c].response.status # "FILLED"

\* C23: after a rejected placement the order manager hands its caller a result
\* with a status that is not FILLED, and the caller's loop (the fill-wait loop,
\* the liquidation loop) goes on with its next iteration.
C23_RejectionIsRetried ==
    [][\A c \in Callers :
          /\ Rejects(c) =>
                /\ oms'[c].response # NoneResponse
                /\ oms'[c].response.status # "FILLED"
          /\ ReadsUnfilled(c) =>
                pc'[c] = IF c = "sup" THEN "loop" ELSE "liq_loop"]_vars

----------------------------------------------------------------------------
(* Claims about the account polls, checked under SpecPoll                  *)

\* C24: a poll that returns an empty or malformed payload is no update: the
\* cached records and the stored position keep the values of the last good
\* poll, and the loop goes on to its callbacks and its next poll.
C24_BadPayloadIsNoUpdate ==
    [][AcctFetchEmpty =>
          /\ account_position_info' = account_position_info
          /\ realized_pnl' = realized_pnl
          /\ global_position' = global_position
          /\ acctPc' \in {"fetch", "notify"}]_vars

----------------------------------------------------------------------------
(* Claims about the liquidation loop, checked under SpecRisk               *)

\* the liquidation loop hands an order to the order manager; it ends
LiqCalls == pc["risk"] = "liq_loop" /\ pc'["risk"] = "oms_fetch"
LiqEnds == pc["risk"] \in {"liq_loop", "check"} /\ pc'["risk"] = "rules"

\* C25: every turn of the liquidation loop orders against the position stored
\* at that turn (the opposite side, |P| times the ratio), and the loop ends
\* exactly when |P| <= 0.5 or a placement returned FILLED.
C25_LiquidationLoop ==
    [][/\ LiqCalls =>
            /\ oms'["risk"].side = IF global_position > 0 THEN "SELL" ELSE "BUY"
            /\ oms'["risk"].qty = Abs(global_position) * risk.ratio
       /\ LiqEnds =>
            \/ pc["risk"] = "liq_loop" /\ Abs(global_position) <= FlatFloor
            \/ /\ pc["risk"] = "check"
               /\ oms["risk"].response # NoneResponse
               /\ oms["risk"].response.status = "FILLED"
       /\ (pc["risk"] = "liq_loop" /\ Abs(global_position) <= FlatFloor) =>
            pc'["risk"] # "oms_fetch"
       /\ (/\ pc["risk"] = "check"
           /\ oms["risk"].response # NoneResponse
           /\ oms["risk"].response.status = "FILLED") => pc'["risk"] # "liq_loop"]_vars

----------------------------------------------------------------------------
(* Claims about one liquidation, checked under SpecLiq                     *)

\* the quantity filled so far of the orders of caller c, in tenths
FilledOf(c) ==
    SumTo([i \in 1..Len(orders) |-> IF orders[i].owner = c THEN orders[i].filled ELSE 0],
          1, Len(orders))

\* C26: a liquidation started with ratio 0.5 fills at most half of |P| as it
\* was when the liquidation started.
C26_HalfLiquidationFillsHalf ==
    risk.ratio = Half => 2 * FilledOf("risk") <= Abs(risk.pos)

----------------------------------------------------------------------------
(* Claims about the rules of a risk cycle, checked under SpecRules         *)

\* the direct-loss stop of line 196 on the locals of the cycle
StopLoss(r) == DirectLoss(r.profit, r.pos, r.entry, 1) /\ Abs(r.pos) > FlatFloor

\* the step of the cycle that evaluates lines 195-203
EvaluatesStop ==
    /\ pc["risk"] = "rules"
    /\ risk.next = 2 \/ (risk.next = 1 /\ ~OverNotional(risk.pos, risk.entry))
    /\ pc'["risk"] # "rules" \/ risk' # risk

\* the step starts the liquidation of lines 195-203 with the given ratio
StartsStop(ratio) ==
    /\ pc'["risk"] = "liq_loop"
    /\ risk'.next = 3
    /\ risk'.ratio = ratio

\* C27: with a book, the cycle runs a 100% liquidation when U is below the
\* direct-loss stop and |P| > 0.5; only otherwise it runs a 50% liquidation,
\* if and only if U is above the take-profit threshold; without a book it
\* runs neither.
C27_StopOrTakeProfit ==
    [][/\ (EvaluatesStop /\ get_order_book # NoDepth /\ StopLoss(risk)) => StartsStop(Full)
       /\ (EvaluatesStop /\ get_order_book # NoDepth /\ ~StopLoss(risk)
                         /\ TakeProfit(risk.profit)) => StartsStop(Half)
       /\ (EvaluatesStop /\ (get_order_book = NoDepth
                             \/ (~StopLoss(risk) /\ ~TakeProfit(risk.profit))))
              => risk'.next # 3
       /\ (pc["risk"] = "entry" /\ get_order_book = NoDepth /\ pc' # pc)
              => pc'["risk"] = "cycle"]_vars

\* the take-profit rule has started its 50% liquidation
C27_Witness ==
    /\ pc["risk"] = "liq_loop"
    /\ risk.next = 3
    /\ risk.ratio = Half
    /\ TakeProfit(risk.profit)
    /\ ~StopLoss(risk)
    /\ calls = 0

\* the wide stop of line 214 on the locals of the cycle
WideLoss(r) == DirectLoss(r.profit, r.pos, r.entry, WideStop)

\* C28: a cycle with U below three times the direct-loss stop runs, before it
\* ends, a 100% liquidation whose orders are priced between best bid and best
\* ask and at least as deep into the book as the normal liquidation's price.
C28_WideStopQuotesDeeper ==
    [][/\ (pc["risk"] = "rules" /\ pc'["risk"] = "cycle" /\ WideLoss(risk))
              => (risk.next = LastRule + 1 /\ risk.ratio = Full)
       /\ (LiqCalls /\ risk.next = LastRule + 1) =>
              /\ oms'["risk"].kind = "LIMIT"
              /\ oms'["risk"].qty = Abs(global_position) * Full
              /\ oms'["risk"].price >= 100 * get_best_bid(get_order_book)
              /\ oms'["risk"].price <= 100 * get_best_ask(get_order_book)
              /\ oms'["risk"].side = "SELL" =>
                    oms'["risk"].price <=
                        LimitSquarePrice(global_position, get_order_book, DefaultAggressive)
              /\ oms'["risk"].side = "BUY" =>
                    oms'["risk"].price >=
                        LimitSquarePrice(global_position, get_order_book, DefaultAggressive)]_vars

\* the liquidation of the wide stop has quoted, half way between bid and ask
C28_Witness ==
    /\ pc["risk"] = "oms_fetch"
    /\ WideLoss(risk)
    /\ risk.next = LastRule + 1
    /\ oms["risk"].side = "SELL"
    /\ 2 * oms["risk"].price =
          100 * (get_best_bid(get_order_book) + get_best_ask(get_order_book))

----------------------------------------------------------------------------
(* Claims about the market path of liquidate_position, under SpecMarket    *)

\* liquidate_position enters its market path; the call of the order manager
\* it awaits there returns
MarketCalls == pc["risk"] = "cycle" /\ pc'["risk"] = "oms_fetch"
MarketReturns ==
    pc["risk"] = "check" /\ oms["risk"].kind = "MARKET" /\ pc'["risk"] # "check"

\* C29: on the market path liquidate_position requests one MARKET order for
\* |P| as stored, on the side opposite to the sign of P, does not enter the
\* re-quote loop, and the exchange has received exactly that one order when
\* the call returns.
C29_OneMarketOrder ==
    [][/\ MarketCalls =>
              /\ oms'["risk"].kind = "MARKET"
              /\ oms'["risk"].qty = 2 * Abs(global_position)
              /\ oms'["risk"].side = IF global_position >= 0 THEN "SELL" ELSE "BUY"
       /\ MarketReturns =>
              /\ pc'["risk"] # "liq_loop"
              /\ oms["risk"].attempts = 1
              /\ oms["risk"].response # NoneResponse
              /\ orders[oms["risk"].response.orderId].kind = "MARKET"
              /\ 2 * orders[oms["risk"].response.orderId].qty = oms["risk"].qty]_vars

\* C30: between two consecutive dispatches of a candle to the candle callbacks
\* at least 58 seconds elapse, in normal streaming and across reconnects
C30_CandleSpacing ==
    [][(last_dispatch # NoTime /\ last_dispatch' # last_dispatch)
          => now' - last_dispatch[1] >= CandleSleep]_vars

\* C31: every supervisor iteration gets past its signal pull: once the
\* iteration is at lines 57-60, generate_signal returns and the iteration
\* goes on to line 62, also for a window of fewer than 60 rows
C31_SignalPullReturns == (pc["sup"] = "signal") ~> (pc["sup"] \in {"loop", "oms_fetch"})

\* the step in which caller c cancels order i
Cancels(c, i) ==
    /\ pc[c] = "oms_cancel"
    /\ oms'[c].cancelReq # oms[c].cancelReq
    /\ orders[i].status # "CANCELED"
    /\ orders'[i].status = "CANCELED"

\* C32: an order is cancelled only by the initiator that submitted it: the
\* cancel step of a supervisor placement never cancels a liquidation order
\* and a liquidation never cancels a supervisor order
C32_CancelsOwnOrdersOnly ==
    [][\A c \in Callers : \A i \in DOMAIN orders : Cancels(c, i) => orders[i].owner = c]_vars

\* C33: over one liquidation run the filled quantity of its orders does not
\* exceed |P| on the exchange at the start of the run, and the position on
\* the exchange does not change sign, also when the stored position lags
C33_NeverOverLiquidates ==
    /\ FilledOf("risk") <= Abs(risk.pos)
    /\ exPos * risk.pos >= 0

\* the position of the cycle is losing against the book: a long one with the
\* best bid below the entry price, a short one with the best ask above it
LosingAgainstBook(r) ==
    /\ get_order_book # NoDepth
    /\ \/ r.pos > 0 /\ get_best_bid(get_order_book) < r.entry
       \/ r.pos < 0 /\ get_best_ask(get_order_book) > r.entry

\* the step in which a direct-loss stop (line 199 or line 217) enters its
\* 100% liquidation
StopFires ==
    /\ pc["risk"] = "rules"
    /\ pc'["risk"] = "liq_loop"
    /\ risk'.ratio = Full

\* C34: the direct-loss stops fire only in cycles where the position is
\* losing against the book; a position in profit never triggers them
C34_StopsOnlyWhenLosing == [][StopFires => LosingAgainstBook(risk)]_vars

\* the step of line 209 that computes realized_pnl / max_pnl
Divides == pc["risk"] = "dd_divide" /\ pc'["risk"] # "dd_divide"

\* C35: whenever the drawdown ratio is computed, max_pnl is greater than 0
\* and at least the realized PnL used in the division; max_pnl never
\* decreases
C35_PeakBoundsRealized ==
    [][/\ Divides => (risk.max_pnl > 0 /\ risk.max_pnl >= realized_pnl)
       /\ risk'.max_pnl >= risk.max_pnl]_vars

\* C36: risk_flag is false only while a liquidation is executing: once
\* liquidate_position has returned, by any path, risk_flag is true again
C36_FlagFalseOnlyInLiquidation == ~risk.risk_flag => InLiquidation

\* the inner-loop turn synthesizes a reduce order: the position read is at or
\* beyond the limit and the side of the signal would increase it
Synthesizes ==
    /\ SupCalls
    /\ \/ global_position >= MaxLimitSinglePair /\ supv.side = "BUY"
       \/ global_position <= -MaxLimitSinglePair /\ supv.side = "SELL"

\* C37: a full fill of a synthesized reduce order, as place_limit_order rounds
\* it, applied to the position that was read leaves the position strictly
\* inside the limit and with the same sign or zero
C37_ReduceLandsInsideLimit ==
    [][Synthesizes =>
          \A q \in Rounded("LIMIT", oms'["sup"].qty) :
              LET after == global_position + Signed(oms'["sup"].side, q)
              IN  /\ Abs(after) < MaxLimitSinglePair
                  /\ after * global_position >= 0]_vars

\* a SELL signal at 1.7 short: the synthesized BUY of 0.5 was filled and the
\* position on the exchange is -1.2
C37_Witness ==
    /\ supv.side = "SELL"
    /\ global_position = -17
    /\ pc["sup"] \in {"oms_sleep", "check"}
    /\ oms["sup"].side = "BUY"
    /\ oms["sup"].qty = 2 * (2 + ReduceExtra)
    /\ oms["sup"].response # NoneResponse
    /\ orders[oms["sup"].response.orderId].status = "FILLED"
    /\ exPos = -12

====
